---- MODULE Spec2Model ----
(***************************************************************************)
(* Real-time core of the chat-and-calling backend: the session registries  *)
(* of the two socket handlers, the call registry and the persisted Call    *)
(* records, and the delivered/read acknowledgement state of persisted      *)
(* Message records.                                                        *)
(*                                                                         *)
(* server.js calls socketHandler(io), which calls callHandler(io); both    *)
(* register io.on('connection') and both listen to 'authenticate' and      *)
(* 'disconnect' on every socket, so one event runs both handlers.          *)
(***************************************************************************)
EXTENDS Integers, Sequences, FiniteSets, TLC

\* ------------------------------------------------------------------ bounds
MaxCalls == 2
MaxMessages == 1
MaxTime == 1
MaxAcks == 2
MaxInflight == 2
MaxSends == 3
MaxMinutes == 61
MaxNewChats == 2
MaxPresenceEvents == 3

\* ------------------------------------------------------------- value sets
Users == {"u1", "u2", "u3"}
SocketSeq == <<"s1", "s2", "s3">>
Sockets == {SocketSeq[i] : i \in 1..Len(SocketSeq)}
Chats == {"c1"}
None == "none"
NoTime == -1

NonTerminal == {"initiating", "ringing", "answered"}
Terminal == {"ended", "rejected", "missed"}

\* Tokens presented with `authenticate`: missing, failing jwt.verify, or a
\* valid token embedding a user id.
Tokens == {"missing", "invalid"} \cup Users

VARIABLES
  sockState,        \* socket -> "new" | "open" | "closed" (socket ids are never reused)
  socketUserId,     \* socket.userId, None until authenticated
  userSockets,      \* socketHandler: Map userId -> socketId
  callUserSockets,  \* callHandler: Map userId -> socketId
  userChats,        \* socketHandler: Map userId -> Set(chatId)
  rooms,            \* socket.join / socket.leave: socket -> set of chat ids
  isOnline,         \* persisted User.isOnline
  calls,            \* persisted Call records, call id = index
  activeCalls,      \* callHandler: Map callId -> {callerSocket, receiverSocket}
  chats,            \* persisted Chat records
  messages,         \* persisted Message records, message id = index
  inflight,         \* handlers suspended between a storage read and their save
  jobs,             \* message-delivery queue: ids of the messages whose job waits
  sends,            \* send_message handlers in order of arrival, with their progress
  emits,            \* events delivered by the handler step that ran last, in order
  now,              \* the clock read by new Date()
  newChats,         \* persisted Chat records created since the start, in order
  accounts,         \* persisted User records of the registered accounts
  response,         \* the HTTP response of the auth route that ran last
  presenceWrites    \* User.findByIdAndUpdate({isOnline}) calls of the socket handlers, in order of issue

vars == <<sockState, socketUserId, userSockets, callUserSockets, userChats, rooms,
          isOnline, calls, activeCalls, chats, messages, inflight, jobs, sends,
          emits, now, newChats, accounts, response, presenceWrites>>

sessionVars == <<sockState, socketUserId, userSockets, callUserSockets, userChats,
                 rooms, isOnline>>
callVars == <<calls, activeCalls>>
msgVars == <<chats, messages, inflight, jobs, sends>>
authVars == <<accounts, response>>
extVars == <<newChats, authVars, presenceWrites>>

\* An undefined property of a response body.
Undefined == "undefined"

\* A response body without data.user and without data.token.
NoProfile == [username |-> Undefined, email |-> Undefined]

NoToken == [sub |-> Undefined]

NoResponse == [status |-> 0, success |-> FALSE, user |-> NoProfile, token |-> NoToken]

\* ----------------------------------------------------------------- emits
Ev(ev, to, ref, who) == [ev |-> ev, to |-> to, ref |-> ref, who |-> who]

Open(s) == sockState[s] = "open"

OpenSockets == {s \in Sockets : Open(s)}

\* io.to(socketId).emit(...): delivered when that socket is connected (O is
\* the set of connected sockets at the time of the emit).
EmitToIn(O, to, ev, ref, who) ==
  IF to \in O THEN <<Ev(ev, to, ref, who)>> ELSE <<>>

EmitTo(to, ev, ref, who) == EmitToIn(OpenSockets, to, ev, ref, who)

\* socket.emit(<error event>, {message}) of a handler that gives up: the reply
\* goes to the socket that sent the request, whichever it is.
ErrorReply(ev, message) == <<Ev(ev, "requester", 0, message)>>

RECURSIVE BroadcastFrom(_, _, _, _, _)
\* socket.broadcast.emit(...): every connected socket except the emitting one.
BroadcastFrom(i, O, s, ev, who) ==
  IF i > Len(SocketSeq) THEN <<>>
  ELSE (IF SocketSeq[i] # s /\ SocketSeq[i] \in O
          THEN <<Ev(ev, SocketSeq[i], 0, who)>> ELSE <<>>)
       \o BroadcastFrom(i + 1, O, s, ev, who)

Broadcast(O, s, ev, who) == BroadcastFrom(1, O, s, ev, who)

\* ------------------------------------------------------------ Chat model
\* Chat.find({'participants.user': u, 'participants.isActive': true, isActive: true}):
\* the two participant conditions are matched independently of each other.
ChatFindForUser(u) ==
  {c \in Chats : /\ chats[c].isActive
                 /\ \E p \in chats[c].participants : p.user = u
                 /\ \E q \in chats[c].participants : q.isActive}

\* An entry of the userChats map: absent, or a Set of chat ids.
NoChatSet == [has |-> FALSE, ids |-> {}]

ChatSet(ids) == [has |-> TRUE, ids |-> ids]

\* No handler is suspended for this requester.
Idle == [op |-> "idle", user |-> None, msgs |-> <<>>, docs |-> <<>>]

\* Who can have a handler suspended at a storage await: a socket (one event
\* handler) or an account (one REST request).
Requesters == Sockets \cup Users

\* ---------------------------------------------------------------- Init
Init ==
  /\ sockState = [s \in Sockets |-> "new"]
  /\ socketUserId = [s \in Sockets |-> None]
  /\ userSockets = [u \in Users |-> None]
  /\ callUserSockets = [u \in Users |-> None]
  /\ userChats = [u \in Users |-> NoChatSet]
  /\ rooms = [s \in Sockets |-> {}]
  /\ isOnline = [u \in Users |-> FALSE]
  /\ calls = <<>>
  /\ activeCalls = <<>>
  /\ chats = [c \in Chats |->
                [isActive |-> TRUE,
                 participants |-> {[user |-> "u1", isActive |-> TRUE],
                                   [user |-> "u2", isActive |-> TRUE]},
                 lastMessage |-> 0,
                 preview |-> <<>>,
                 unreadCount |-> [u \in Users |-> 0]]]
  /\ messages = <<>>
  /\ inflight = [r \in Requesters |-> Idle]
  /\ jobs = {}
  /\ sends = <<>>
  /\ emits = <<>>
  /\ now = 0
  /\ newChats = <<>>
  /\ accounts = {}
  /\ response = NoResponse
  /\ presenceWrites = <<>>

\* ------------------------------------------------------------- sessions
\* io.on('connection')
Connect(s) ==
  /\ sockState[s] = "new"
  /\ sockState' = [sockState EXCEPT ![s] = "open"]
  /\ emits' = <<>>
  /\ UNCHANGED <<socketUserId, userSockets, callUserSockets, userChats, rooms,
                 isOnline, callVars, msgVars, now, extVars>>

\* A token check that verifies the signature and forgets to compare the
\* embedded id with the claimed one.
TokenAcceptedAnyIdentity(userId, token) == token \in Users

\* jwt.verify succeeds and the embedded id is the claimed one.
TokenAccepted(userId, token) == token \in Users /\ token = userId

\* socket.on('authenticate') of socketHandler and of callHandler.
Authenticate(s, userId, token) ==
  /\ Open(s)
  /\ IF ~TokenAccepted(userId, token)
       THEN /\ emits' = EmitTo(s, "authentication_error", 0, None)
                        \o EmitTo(s, "authentication_error", 0, None)
            /\ UNCHANGED <<sessionVars, callVars, msgVars, now, extVars>>
       ELSE /\ userSockets' = [userSockets EXCEPT ![userId] = s]
            /\ callUserSockets' = [callUserSockets EXCEPT ![userId] = s]
            /\ socketUserId' = [socketUserId EXCEPT ![s] = userId]
            /\ isOnline' = [isOnline EXCEPT ![userId] = TRUE]
            /\ userChats' = [userChats EXCEPT
                              ![userId] = ChatSet(ChatFindForUser(userId))]
            /\ rooms' = [rooms EXCEPT ![s] = @ \cup ChatFindForUser(userId)]
            /\ emits' = EmitTo(s, "authenticated", 0, None)
                        \o Broadcast(OpenSockets, s, "user_online", userId)
                        \o EmitTo(s, "authenticated", 0, None)
                        \o Broadcast(OpenSockets, s, "user_online", userId)
            /\ UNCHANGED <<sockState, callVars, msgVars, now, extVars>>

\* ------------------------------------------------------------ Call model
\* new Call({caller, receiver, status}) after save: schema defaults applied.
SettingKeys == {"muteAudio", "muteVideo", "recordCall"}

\* callSchema settings: every flag defaults to false.
DefaultSettings == [k \in SettingKeys |-> FALSE]

NewCall(caller, receiver, status) ==
  [caller |-> caller, receiver |-> receiver, status |-> status,
   answerTime |-> NoTime, endTime |-> NoTime, duration |-> 0, isActive |-> TRUE,
   settings |-> DefaultSettings]

\* callSchema.methods.answerCall
answerCall(c) == [c EXCEPT !.status = "answered", !.answerTime = now]

\* An end that stamps the end time and leaves the status as it was.
endCallKeepingStatus(c) == [c EXCEPT !.endTime = now]

\* callSchema.methods.endCall (durations in whole seconds, the clock's unit)
endCall(c) ==
  [c EXCEPT !.status = "ended", !.endTime = now,
            !.duration = IF c.answerTime # NoTime THEN now - c.answerTime ELSE @]

\* callSchema.methods.rejectCall
rejectCall(c) == [c EXCEPT !.status = "rejected", !.endTime = now]

\* callSchema.statics.getActiveCall: is there a non-terminal, not deleted call
\* with userId as caller or receiver.
getActiveCall(userId) ==
  \E i \in 1..Len(calls) :
     /\ calls[i].caller = userId \/ calls[i].receiver = userId
     /\ calls[i].status \in NonTerminal
     /\ calls[i].isActive

CallIds == 1..Len(calls)

\* Any id a client may send: the ids of stored calls and one unknown id.
CallIdInputs == 1..(Len(calls) + 1)

\* activeCalls.set(callId, info) / activeCalls.delete(callId)
RegistryPut(reg, id, info) ==
  [i \in DOMAIN reg \cup {id} |-> IF i = id THEN info ELSE reg[i]]

RegistryDelete(reg, ids) == [i \in DOMAIN reg \ ids |-> reg[i]]

CallTypeInputs == {"voice", "unknown"}

\* The `type` enum of callSchema: save() rejects any other value.
ValidCallType(type) == type \in {"voice", "video"}

\* socket.on('initiate_call')
InitiateCall(s, receiverId, type) ==
  LET callerId == socketUserId[s]
      receiverSocketId == callUserSockets[receiverId]
      id == Len(calls) + 1
  IN /\ Open(s)
     /\ Len(calls) < MaxCalls
     /\ IF callerId = None \/ receiverSocketId = None \/ ~ValidCallType(type)
          THEN /\ emits' = ErrorReply("call_error",
                              IF callerId = None THEN "User not authenticated"
                              ELSE IF receiverSocketId = None THEN "User is offline"
                              ELSE "Failed to initiate call")
               /\ UNCHANGED callVars
          ELSE /\ calls' = Append(calls, NewCall(callerId, receiverId, "ringing"))
               /\ activeCalls' = RegistryPut(activeCalls, id,
                                    [callerSocket |-> s,
                                     receiverSocket |-> receiverSocketId])
               /\ emits' = EmitTo(receiverSocketId, "incoming_call", id, callerId)
                           \o EmitTo(s, "call_initiated", id, None)
     /\ UNCHANGED <<sessionVars, msgVars, now, extVars>>

\* socket.on('answer_call')
AnswerCall(s, callId) ==
  /\ Open(s)
  /\ IF callId \notin DOMAIN activeCalls \/ callId \notin CallIds
       THEN /\ emits' = ErrorReply("call_error", "Call not found")
            /\ UNCHANGED callVars
       ELSE /\ calls' = [calls EXCEPT ![callId] = answerCall(@)]
            /\ emits' = EmitTo(activeCalls[callId].callerSocket, "call_answered",
                               callId, calls[callId].receiver)
                        \o EmitTo(s, "call_connected", callId, None)
            /\ UNCHANGED activeCalls
  /\ UNCHANGED <<sessionVars, msgVars, now, extVars>>

\* socket.on('reject_call')
RejectCall(s, callId) ==
  /\ Open(s)
  /\ IF callId \notin DOMAIN activeCalls
       THEN /\ emits' = ErrorReply("call_error", "Call not found")
            /\ UNCHANGED callVars
       ELSE /\ calls' = [calls EXCEPT ![callId] = rejectCall(@)]
            /\ emits' = EmitTo(activeCalls[callId].callerSocket, "call_rejected",
                               callId, calls[callId].receiver)
            /\ activeCalls' = RegistryDelete(activeCalls, {callId})
  /\ UNCHANGED <<sessionVars, msgVars, now, extVars>>

\* socket.on('end_call')
EndCall(s, callId) ==
  /\ Open(s)
  /\ IF callId \notin DOMAIN activeCalls
       THEN /\ emits' = ErrorReply("call_error", "Call not found")
            /\ UNCHANGED callVars
       ELSE /\ calls' = [calls EXCEPT ![callId] = endCall(@)]
            /\ emits' = EmitTo(activeCalls[callId].callerSocket, "call_ended",
                               callId, None)
                        \o EmitTo(activeCalls[callId].receiverSocket, "call_ended",
                                  callId, None)
            /\ activeCalls' = RegistryDelete(activeCalls, {callId})
  /\ UNCHANGED <<sessionVars, msgVars, now, extVars>>

\* The other end of a call, as the disconnect handler picks it.
TargetSocket(info, s) ==
  IF info.callerSocket = s THEN info.receiverSocket ELSE info.callerSocket

\* The registry entries the disconnect handler of socket s visits.
CallsOfSocket(s) ==
  {id \in DOMAIN activeCalls :
     activeCalls[id].callerSocket = s \/ activeCalls[id].receiverSocket = s}

RECURSIVE DisconnectCallEmits(_, _, _)
\* call_ended to the other participant of every visited call, in Map order.
DisconnectCallEmits(id, O, s) ==
  IF id > MaxCalls THEN <<>>
  ELSE (IF id \in CallsOfSocket(s)
          THEN EmitToIn(O, TargetSocket(activeCalls[id], s), "call_ended", id,
                        "User disconnected")
          ELSE <<>>)
       \o DisconnectCallEmits(id + 1, O, s)

\* The loop of the callHandler disconnect handler over the persisted calls:
\* only a call found in status answered is ended.
DisconnectEndCalls(s) ==
  [i \in DOMAIN calls |->
     IF i \in CallsOfSocket(s) /\ calls[i].status = "answered"
       THEN endCall(calls[i]) ELSE calls[i]]

\* socket.on('disconnect') of callHandler and of socketHandler. The socket
\* object is discarded with its rooms and its userId property.
Disconnect(s) ==
  LET userId == socketUserId[s]
      O == OpenSockets \ {s}
  IN /\ Open(s)
     /\ sockState' = [sockState EXCEPT ![s] = "closed"]
     /\ rooms' = [rooms EXCEPT ![s] = {}]
     /\ socketUserId' = [socketUserId EXCEPT ![s] = None]
     /\ IF userId = None
          THEN /\ emits' = <<>>
               /\ UNCHANGED <<userSockets, callUserSockets, userChats, isOnline,
                              callVars>>
          ELSE /\ callUserSockets' = [callUserSockets EXCEPT ![userId] = None]
               /\ userSockets' = [userSockets EXCEPT ![userId] = None]
               /\ userChats' = [userChats EXCEPT ![userId] = NoChatSet]
               /\ isOnline' = [isOnline EXCEPT ![userId] = FALSE]
               /\ calls' = DisconnectEndCalls(s)
               /\ activeCalls' = RegistryDelete(activeCalls, CallsOfSocket(s))
               /\ emits' = DisconnectCallEmits(1, O, s)
                           \o Broadcast(O, s, "user_offline", userId)
                           \o Broadcast(O, s, "user_offline", userId)
     /\ UNCHANGED <<msgVars, now, extVars>>

\* ------------------------------------------------------- REST /api/calls
\* router.post('/initiate'); req.user is any authenticated account.
RestInitiate(callerId, receiverId, type) ==
  /\ Len(calls) < MaxCalls
  /\ emits' = <<>>
  /\ IF \/ ~ValidCallType(type)
        \/ callerId = receiverId
        \/ getActiveCall(callerId)
        \/ getActiveCall(receiverId)
       THEN UNCHANGED callVars
       ELSE /\ calls' = Append(calls, NewCall(callerId, receiverId, "initiating"))
            /\ UNCHANGED activeCalls
  /\ UNCHANGED <<sessionVars, msgVars, now, extVars>>

\* router.post('/:callId/answer')
RestAnswer(userId, callId) ==
  /\ emits' = <<>>
  /\ IF \/ callId \notin CallIds
        \/ calls[callId].receiver # userId
        \/ calls[callId].status # "ringing"
       THEN UNCHANGED calls
       ELSE calls' = [calls EXCEPT ![callId] = answerCall(@)]
  /\ UNCHANGED <<sessionVars, activeCalls, msgVars, now, extVars>>

\* router.post('/:callId/reject')
RestReject(userId, callId) ==
  /\ emits' = <<>>
  /\ IF \/ callId \notin CallIds
        \/ calls[callId].receiver # userId
        \/ calls[callId].status # "ringing"
       THEN UNCHANGED calls
       ELSE calls' = [calls EXCEPT ![callId] = rejectCall(@)]
  /\ UNCHANGED <<sessionVars, activeCalls, msgVars, now, extVars>>

\* router.post('/:callId/end')
RestEnd(userId, callId) ==
  /\ emits' = <<>>
  /\ IF \/ callId \notin CallIds
        \/ (calls[callId].caller # userId /\ calls[callId].receiver # userId)
        \/ calls[callId].status \in Terminal
       THEN UNCHANGED calls
       ELSE calls' = [calls EXCEPT ![callId] = endCall(@)]
  /\ UNCHANGED <<sessionVars, activeCalls, msgVars, now, extVars>>

\* router.delete('/:callId'): soft delete by a participant.
RestDeleteCall(userId, callId) ==
  /\ emits' = <<>>
  /\ IF \/ callId \notin CallIds
        \/ (calls[callId].caller # userId /\ calls[callId].receiver # userId)
       THEN UNCHANGED calls
       ELSE calls' = [calls EXCEPT ![callId].isActive = FALSE]
  /\ UNCHANGED <<sessionVars, activeCalls, msgVars, now, extVars>>

\* new Date() moves on between two handler steps.
Tick ==
  /\ now < MaxTime
  /\ now' = now + 1
  /\ UNCHANGED <<sessionVars, callVars, msgVars, emits, extVars>>

SessionNext ==
  \/ \E s \in Sockets : Connect(s)
  \/ \E s \in Sockets, u \in Users, t \in Tokens : Authenticate(s, u, t)
  \/ \E s \in Sockets : Disconnect(s)

\* --------------------------------------------------------- Message model
\* new Message({chat, sender}) after save: the pre-save hook turns the default
\* status 'sending' into 'sent'.
\* Message texts, as sequences of characters.
Texts == {<<"a">>, <<"b">>}

\* The text every send of the model carries.
SentText == <<"a">>

NewMessage(chat, sender) ==
  [chat |-> chat, sender |-> sender, status |-> "sent",
   deliveredTo |-> <<>>, readBy |-> <<>>,
   text |-> SentText, createdAt |-> now, isDeleted |-> FALSE, deletedBy |-> <<>>]

\* content.text.substring(0, 100)
Preview(text) == SubSeq(text, 1, IF Len(text) < 100 THEN Len(text) ELSE 100)

\* chatSchema.methods.updateLastMessage
updateLastMessage(chat, messageId, preview) ==
  [chat EXCEPT !.lastMessage = messageId, !.preview = preview]

MessageIds == 1..Len(messages)

\* Any id a client may send: the ids of stored messages and one unknown id.
MessageIdInputs == 1..(Len(messages) + 1)

HasUser(acks, userId) == \E i \in 1..Len(acks) : acks[i] = userId

\* messageSchema.methods.markAsDelivered, on a loaded document.
markAsDelivered(doc, userId) ==
  IF HasUser(doc.deliveredTo, userId) THEN doc
  ELSE [doc EXCEPT !.deliveredTo = Append(@, userId),
                   !.status = IF @ = "sent" THEN "delivered" ELSE @]

\* messageSchema.methods.markAsRead, on a loaded document.
markAsRead(doc, userId) ==
  IF HasUser(doc.readBy, userId) THEN doc
  ELSE [doc EXCEPT !.readBy = Append(@, userId), !.status = "read"]

\* The elements a handler pushed on an array of its loaded document.
Pushed(before, after) == SubSeq(after, Len(before) + 1, Len(after))

\* document.save() of a loaded and then modified document: the update sent to
\* storage $sets the paths whose value changed and $pushes the new array
\* elements; nothing else of the stored document is touched.
SaveMessage(stored, loaded, modified) ==
  [stored EXCEPT
     !.status = IF modified.status # loaded.status THEN modified.status ELSE @,
     !.deliveredTo = @ \o Pushed(loaded.deliveredTo, modified.deliveredTo),
     !.readBy = @ \o Pushed(loaded.readBy, modified.readBy)]

Suspended == {r \in Requesters : inflight[r].op # "idle"}

CanSuspend(r) == inflight[r].op = "idle" /\ Cardinality(Suspended) < MaxInflight

AcksFit(m) ==
  Len(messages[m].deliveredTo) < MaxAcks /\ Len(messages[m].readBy) < MaxAcks

RECURSIVE RoomEmitFrom(_, _, _, _, _)
\* socket.to(chatId).emit(...): every connected socket joined to the room
\* except the emitting one.
RoomEmitFrom(i, s, chatId, ev, ref) ==
  IF i > Len(SocketSeq) THEN <<>>
  ELSE (IF SocketSeq[i] # s /\ Open(SocketSeq[i]) /\ chatId \in rooms[SocketSeq[i]]
          THEN <<Ev(ev, SocketSeq[i], ref, socketUserId[s])>> ELSE <<>>)
       \o RoomEmitFrom(i + 1, s, chatId, ev, ref)

RoomEmit(s, chatId, ev, ref) == RoomEmitFrom(1, s, chatId, ev, ref)

\* chatSchema.methods.incrementUnreadCount
incrementUnreadCount(chat, senderId) ==
  [chat EXCEPT !.unreadCount =
     [u \in Users |->
        IF \E p \in chat.participants : p.user = u /\ p.user # senderId /\ p.isActive
          THEN @[u] + 1 ELSE @[u]]]

\* chatSchema.methods.resetUnreadCount
resetUnreadCount(chat, userId) == [chat EXCEPT !.unreadCount[userId] = 0]

ChatIdInputs == Chats \cup {"unknown"}

\* socket.on('send_message') of the socketHandler that uses the model methods.
SendMessage(s, chatId) ==
  LET senderId == socketUserId[s]
      id == Len(messages) + 1
      onlineParticipants ==
        {p.user : p \in {q \in chats[chatId].participants :
                           q.user # senderId /\ userSockets[q.user] # None}}
      message == IF onlineParticipants # {}
                   THEN markAsDelivered(NewMessage(chatId, senderId), senderId)
                   ELSE NewMessage(chatId, senderId)
  IN /\ Open(s)
     /\ Len(messages) < MaxMessages
     /\ IF senderId = None
          THEN /\ emits' = ErrorReply("message_error", "User not authenticated")
               /\ UNCHANGED <<chats, messages>>
          ELSE IF chatId \notin ChatFindForUser(senderId)
          THEN /\ emits' = ErrorReply("message_error", "Chat not found or access denied")
               /\ UNCHANGED <<chats, messages>>
          ELSE /\ messages' = Append(messages, message)
               /\ chats' = [chats EXCEPT ![chatId] =
                              incrementUnreadCount(updateLastMessage(@, id, Preview(SentText)),
                                                   senderId)]
               /\ emits' = RoomEmit(s, chatId, "new_message", id)
                           \o EmitTo(s, "message_sent", id, None)
                           \o (IF onlineParticipants # {}
                                 THEN EmitTo(s, "message_delivered", id, None)
                                 ELSE <<>>)
     /\ UNCHANGED <<sessionVars, callVars, jobs, sends, inflight, now, extVars>>

\* socket.on('message_delivered') / socket.on('message_read') of the
\* socketHandler that uses the model methods, up to `await Message.findById`.
AckLoad(s, op, messageId) ==
  /\ Open(s)
  /\ op \in {"message_delivered", "message_read"}
  /\ socketUserId[s] # None
  /\ messageId \in MessageIds
  /\ AcksFit(messageId)
  /\ CanSuspend(s)
  /\ inflight' = [inflight EXCEPT ![s] = [op |-> op, user |-> socketUserId[s],
                                          msgs |-> <<messageId>>,
                                          docs |-> <<messages[messageId]>>]]
  /\ emits' = <<>>
  /\ UNCHANGED <<sessionVars, callVars, jobs, sends, chats, messages, now, extVars>>

\* The same handlers from the resolved findById on: markAsDelivered or
\* markAsRead on the loaded document, its save, and the receipt to the sender.
AckSave(s) ==
  LET h == inflight[s]
      m == h.msgs[1]
      loaded == h.docs[1]
      modified == IF h.op = "message_delivered"
                    THEN markAsDelivered(loaded, h.user)
                    ELSE markAsRead(loaded, h.user)
  IN /\ h.op \in {"message_delivered", "message_read"}
     /\ messages' = [messages EXCEPT ![m] = SaveMessage(@, loaded, modified)]
     /\ inflight' = [inflight EXCEPT ![s] = Idle]
     /\ emits' = EmitTo(userSockets[loaded.sender], h.op, m, h.user)
     /\ UNCHANGED <<sessionVars, callVars, jobs, sends, chats, now, extVars>>

\* message_delivered or message_read from a socket that is not authenticated
\* or for a message id that is not stored: the handler returns.
AckIgnored(s, messageId) ==
  /\ Open(s)
  /\ socketUserId[s] = None \/ messageId \notin MessageIds
  /\ emits' = <<>>
  /\ UNCHANGED <<sessionVars, callVars, msgVars, now, extVars>>

\* socket.on("message_delivered") of socketHandler.js: $addToSet of the bare
\* user id on deliveredTo. The update is cast against the schema, whose
\* deliveredTo elements are sub-documents: a string cannot be cast to one,
\* findByIdAndUpdate rejects and the handler only logs the error.
MessageDeliveredAddToSet(s, messageId) ==
  /\ Open(s)
  /\ socketUserId[s] # None
  /\ messageId \in MessageIds
  /\ emits' = <<>>
  /\ UNCHANGED <<sessionVars, callVars, msgVars, now, extVars>>

\* socket.on("message_read") of socketHandler.js: $addToSet of {user, at} on
\* readBy. The cast element is a new sub-document with an _id of its own, so
\* it equals no stored element and is always added; status is not touched.
MessageReadAddToSet(s, messageId) ==
  LET userId == socketUserId[s]
  IN /\ Open(s)
     /\ userId # None
     /\ messageId \in MessageIds
     /\ AcksFit(messageId)
     /\ messages' = [messages EXCEPT ![messageId].readBy = Append(@, userId)]
     /\ emits' = EmitTo(userSockets[messages[messageId].sender], "message_read",
                        messageId, userId)
     /\ UNCHANGED <<sessionVars, callVars, jobs, sends, chats, inflight, now, extVars>>

\* socket.on('mark_read'): Message.updateMany with 'readBy.user': {$ne: userId}
\* and $push, then the reset of the user's unread counter.
MarkRead(s, chatId, messageIds) ==
  LET userId == socketUserId[s]
  IN /\ Open(s)
     /\ userId # None
     /\ messages' = [m \in DOMAIN messages |->
                       IF /\ \E i \in 1..Len(messageIds) : messageIds[i] = m
                          /\ messages[m].chat = chatId
                          /\ ~HasUser(messages[m].readBy, userId)
                         THEN [messages[m] EXCEPT !.readBy = Append(@, userId)]
                         ELSE messages[m]]
     /\ chats' = IF chatId \in Chats
                   THEN [chats EXCEPT ![chatId] = resetUnreadCount(@, userId)]
                   ELSE chats
     /\ emits' = RoomEmit(s, chatId, "messages_read", 0)
                 \o [i \in 1..Len(messageIds) |->
                       Ev("message_read", s, messageIds[i], userId)]
     /\ UNCHANGED <<sessionVars, callVars, jobs, sends, inflight, now, extVars>>

\* The messageIds arrays a client may send with mark_read.
MessageIdLists == {<<>>} \cup {<<m>> : m \in MessageIdInputs}

Range(f) == {f[i] : i \in DOMAIN f}

\* The messages of a chat as Message.find returns them.
MessagesOfChat(chatId) == {m \in MessageIds : messages[m].chat = chatId}

\* GET /messages/:chatId up to the resolved Message.find, when some loaded
\* message is unread by the requesting user.
RestGetMessagesLoad(userId, chatId) ==
  LET unread == {m \in MessagesOfChat(chatId) : ~HasUser(messages[m].readBy, userId)}
      ids == CHOOSE q \in [1..Cardinality(unread) -> unread] :
                \A i, j \in 1..Cardinality(unread) : i < j => q[i] < q[j]
  IN /\ chatId \in Chats
     /\ \E p \in chats[chatId].participants : p.user = userId
     /\ unread # {}
     /\ \A m \in unread : AcksFit(m)
     /\ CanSuspend(userId)
     /\ inflight' = [inflight EXCEPT ![userId] =
                       [op |-> "get_messages", user |-> userId, msgs |-> ids,
                        docs |-> [i \in 1..Len(ids) |-> messages[ids[i]]]]]
     /\ emits' = <<>>
     /\ UNCHANGED <<sessionVars, callVars, jobs, sends, chats, messages, now, extVars>>

\* The same request from Promise.all(markAsRead) on: every loaded unread
\* document is marked and saved, then the user's unread counter is reset.
RestGetMessagesSave(userId) ==
  LET h == inflight[userId]
      Loaded(m) == h.docs[CHOOSE i \in 1..Len(h.msgs) : h.msgs[i] = m]
  IN /\ h.op = "get_messages"
     /\ messages' = [m \in DOMAIN messages |->
                       IF m \in Range(h.msgs)
                         THEN SaveMessage(messages[m], Loaded(m),
                                          markAsRead(Loaded(m), userId))
                         ELSE messages[m]]
     /\ chats' = [c \in Chats |->
                    IF \E m \in Range(h.msgs) : messages[m].chat = c
                      THEN resetUnreadCount(chats[c], userId) ELSE chats[c]]
     /\ inflight' = [inflight EXCEPT ![userId] = Idle]
     /\ emits' = <<>>
     /\ UNCHANGED <<sessionVars, callVars, jobs, sends, now, extVars>>

\* The same request when the chat is not found or nothing is unread: the
\* response is sent and storage is left as it is.
RestGetMessagesNoWrite(userId, chatId) ==
  /\ ~(/\ chatId \in Chats
       /\ \E p \in chats[chatId].participants : p.user = userId
       /\ \E m \in MessagesOfChat(chatId) : ~HasUser(messages[m].readBy, userId))
  /\ emits' = <<>>
  /\ UNCHANGED <<sessionVars, callVars, msgVars, now, extVars>>

\* chatSchema.methods.removeParticipant followed by the save of the chat.
RemoveParticipant(chatId, userId) ==
  /\ chatId \in Chats
  /\ \E p \in chats[chatId].participants : p.user = userId /\ p.isActive
  /\ chats' = [chats EXCEPT ![chatId].participants =
                 {IF p.user = userId THEN [p EXCEPT !.isActive = FALSE] ELSE p :
                    p \in @}]
  /\ emits' = <<>>
  /\ UNCHANGED <<sessionVars, callVars, messages, inflight, jobs, sends, now, extVars>>

\* The room the delivery worker addresses for a user.
UserRoom(u) ==
  CASE u = "u1" -> "user:u1" [] u = "u2" -> "user:u2" [] OTHER -> "user:u3"

\* Room names a client may send with join_chat / leave_chat.
RoomInputs == ChatIdInputs \cup {UserRoom(u) : u \in Users}

\* socket.on('join_chat'): any room name is joined, for an authenticated socket.
JoinChat(s, chatId) ==
  LET userId == socketUserId[s]
  IN /\ Open(s)
     /\ IF userId = None
          THEN UNCHANGED <<rooms, userChats>>
          ELSE /\ rooms' = [rooms EXCEPT ![s] = @ \cup {chatId}]
               /\ userChats' = [userChats EXCEPT
                                  ![userId] = ChatSet(@.ids \cup {chatId})]
     /\ emits' = <<>>
     /\ UNCHANGED <<sockState, socketUserId, userSockets, callUserSockets, isOnline,
                    callVars, msgVars, now, extVars>>

\* socket.on('leave_chat')
LeaveChat(s, chatId) ==
  LET userId == socketUserId[s]
  IN /\ Open(s)
     /\ IF userId = None
          THEN UNCHANGED <<rooms, userChats>>
          ELSE /\ rooms' = [rooms EXCEPT ![s] = @ \ {chatId}]
               /\ userChats' = [userChats EXCEPT
                                  ![userId] = IF @.has THEN ChatSet(@.ids \ {chatId})
                                              ELSE @]
     /\ emits' = <<>>
     /\ UNCHANGED <<sockState, socketUserId, userSockets, callUserSockets, isOnline,
                    callVars, msgVars, now, extVars>>

\* POST /api/messages/:chatId with valid content.
RestSendMessage(userId, chatId) ==
  LET id == Len(messages) + 1
  IN /\ Len(messages) < MaxMessages
     /\ IF chatId \notin ChatFindForUser(userId)
          THEN UNCHANGED <<chats, messages, jobs>>
          ELSE /\ messages' = Append(messages, NewMessage(chatId, userId))
               /\ chats' = [chats EXCEPT ![chatId] =
                              incrementUnreadCount(updateLastMessage(@, id, Preview(SentText)),
                                                   userId)]
               /\ jobs' = jobs \cup {id}
     /\ emits' = <<>>
     /\ UNCHANGED <<sessionVars, callVars, inflight, sends, now, extVars>>

RECURSIVE JobEmitFrom(_, _, _)
\* io.to(`user:${userId}`).emit("message:new") for every participant of the
\* chat, in socket order within a participant's room.
JobEmitFrom(i, room, m) ==
  IF i > Len(SocketSeq) THEN <<>>
  ELSE (IF Open(SocketSeq[i]) /\ room \in rooms[SocketSeq[i]]
          THEN <<Ev("message:new", SocketSeq[i], m, messages[m].sender)>> ELSE <<>>)
       \o JobEmitFrom(i + 1, room, m)

RECURSIVE JobEmitUsers(_, _)
JobEmitUsers(us, m) ==
  IF us = {} THEN <<>>
  ELSE LET u == CHOOSE x \in us : TRUE
       IN JobEmitFrom(1, UserRoom(u), m) \o JobEmitUsers(us \ {u}, m)

\* The message-delivery worker processing one job.
DeliverJob(m) ==
  /\ m \in jobs
  /\ jobs' = jobs \ {m}
  /\ emits' = JobEmitUsers({p.user : p \in chats[messages[m].chat].participants}, m)
  /\ UNCHANGED <<sessionVars, callVars, chats, messages, inflight, sends, now, extVars>>

\* Chat.findOne with $all / $elemMatch {user, isActive: true} for sender and
\* receiver: the chats in which both are active participants.
ChatsOfActivePair(senderId, receiverId) ==
  {c \in Chats : /\ chats[c].isActive
                 /\ \E p \in chats[c].participants : p.user = senderId /\ p.isActive
                 /\ \E q \in chats[c].participants : q.user = receiverId /\ q.isActive}

\* receiverId of a send_message payload: absent or a user id.
ReceiverInputs == {None} \cup Users

\* socket.on("send_message") of socketHandler.js, for the payloads that name
\* a stored chat or a receiver with whom the sender already shares a chat
\* (the set of chats is fixed here, so the branch that creates a chat is not
\* taken). The chat gets lastMessage only; no unread counter is touched.
SendMessageByReceiver(s, chatId, receiverId) ==
  LET senderId == socketUserId[s]
      id == Len(messages) + 1
      found == IF chatId \in Chats THEN {chatId}
               ELSE IF receiverId = None THEN {}
               ELSE ChatsOfActivePair(senderId, receiverId)
      chat == CHOOSE c \in found : TRUE
  IN /\ Open(s)
     /\ Len(messages) < MaxMessages
     /\ chatId \notin Chats /\ receiverId # None /\ senderId # None => found # {}
     /\ IF senderId = None
          THEN /\ emits' = ErrorReply("message_error", "Not authenticated")
               /\ UNCHANGED <<chats, messages>>
          ELSE IF found = {}
          THEN /\ emits' = ErrorReply("message_error", "Chat not found & receiverId missing")
               /\ UNCHANGED <<chats, messages>>
          ELSE IF ~\E p \in chats[chat].participants : p.user = senderId /\ p.isActive
          THEN /\ emits' = ErrorReply("message_error", "Not a participant of this chat")
               /\ UNCHANGED <<chats, messages>>
          ELSE /\ messages' = Append(messages, NewMessage(chat, senderId))
               /\ chats' = [chats EXCEPT ![chat].lastMessage = id]
               /\ emits' = RoomEmit(s, chat, "new_message", id)
                           \o EmitTo(s, "message_sent", id, None)
     /\ UNCHANGED <<sessionVars, callVars, inflight, jobs, sends, now, extVars>>

\* chat.save() of a loaded and then modified chat: lastMessage was assigned
\* and is written; of the unreadCount map the keys whose value was set to
\* another value are written; the stored participants are not touched.
SaveChat(stored, loaded, modified) ==
  [stored EXCEPT
     !.lastMessage = modified.lastMessage,
     !.preview = modified.preview,
     !.unreadCount = [u \in Users |->
                        IF modified.unreadCount[u] # loaded.unreadCount[u]
                          THEN modified.unreadCount[u] ELSE @[u]]]

SendIds == 1..Len(sends)

\* socket.on('send_message') of an authenticated socket up to its first
\* await, Chat.findOne: the handler is now in flight.
SendReceive(s, chatId) ==
  /\ Open(s)
  /\ socketUserId[s] # None
  /\ Len(sends) < MaxSends
  /\ sends' = Append(sends, [socket |-> s, user |-> socketUserId[s], chat |-> chatId,
                             phase |-> "find", docs |-> <<>>, msg |-> 0, to |-> {}])
  /\ emits' = <<>>
  /\ UNCHANGED <<sessionVars, callVars, chats, messages, inflight, jobs, now, extVars>>

\* The handler from the resolved Chat.findOne to the resolved message.save()
\* and populate: the chat is loaded and the message is persisted.
SendFind(h) ==
  LET x == sends[h]
      id == Len(messages) + 1
  IN /\ x.phase = "find"
     /\ IF x.chat \notin ChatFindForUser(x.user)
          THEN /\ emits' = ErrorReply("message_error", "Chat not found or access denied")
               /\ sends' = [sends EXCEPT ![h].phase = "done"]
               /\ UNCHANGED messages
          ELSE /\ messages' = Append(messages, NewMessage(x.chat, x.user))
               /\ sends' = [sends EXCEPT ![h].phase = "saved",
                                         ![h].docs = <<chats[x.chat]>>,
                                         ![h].msg = id]
               /\ emits' = <<>>
     /\ UNCHANGED <<sessionVars, callVars, chats, inflight, jobs, now, extVars>>

\* The sockets socket.to(chatId).emit reaches.
RoomMembers(s, chatId) ==
  {x \in Sockets : x # s /\ Open(x) /\ chatId \in rooms[x]}

\* The rest of the handler: updateLastMessage and incrementUnreadCount on the
\* loaded chat, chat.save(), the new_message broadcast, message_sent, and
\* markAsDelivered(senderId) when another participant has a socket.
SendFinish(h) ==
  LET x == sends[h]
      loaded == x.docs[1]
      modified == incrementUnreadCount(updateLastMessage(loaded, x.msg, Preview(SentText)),
                                       x.user)
      onlineParticipants ==
        {p.user : p \in {q \in loaded.participants :
                           q.user # x.user /\ userSockets[q.user] # None}}
      fresh == NewMessage(x.chat, x.user)
  IN /\ x.phase = "saved"
     /\ chats' = [chats EXCEPT ![x.chat] = SaveChat(@, loaded, modified)]
     /\ messages' = IF onlineParticipants # {}
                      THEN [messages EXCEPT ![x.msg] =
                              SaveMessage(@, fresh, markAsDelivered(fresh, x.user))]
                      ELSE messages
     /\ emits' = RoomEmit(x.socket, x.chat, "new_message", x.msg)
                 \o EmitTo(x.socket, "message_sent", x.msg, None)
                 \o (IF onlineParticipants # {}
                       THEN EmitTo(x.socket, "message_delivered", x.msg, None)
                       ELSE <<>>)
     /\ sends' = [sends EXCEPT ![h].phase = "done",
                               ![h].to = RoomMembers(x.socket, x.chat)]
     /\ UNCHANGED <<sessionVars, callVars, inflight, jobs, now, extVars>>

\* socket.on('webrtc_offer'): forwarded to the receiver socket of the
\* registry entry.
WebrtcOffer(s, callId) ==
  /\ Open(s)
  /\ emits' = IF callId \in DOMAIN activeCalls
                THEN EmitTo(activeCalls[callId].receiverSocket, "webrtc_offer",
                            callId, socketUserId[s])
                ELSE <<>>
  /\ UNCHANGED <<sessionVars, callVars, msgVars, now, extVars>>

\* socket.on('webrtc_answer'): forwarded to the caller socket of the entry.
WebrtcAnswer(s, callId) ==
  /\ Open(s)
  /\ emits' = IF callId \in DOMAIN activeCalls
                THEN EmitTo(activeCalls[callId].callerSocket, "webrtc_answer",
                            callId, socketUserId[s])
                ELSE <<>>
  /\ UNCHANGED <<sessionVars, callVars, msgVars, now, extVars>>

\* socket.on('webrtc_ice_candidate'): forwarded to the receiver socket when
\* the sender is the caller socket, to the caller socket otherwise.
WebrtcIceCandidate(s, callId) ==
  /\ Open(s)
  /\ emits' = IF callId \in DOMAIN activeCalls
                THEN EmitTo(TargetSocket(activeCalls[callId], s),
                            "webrtc_ice_candidate", callId, socketUserId[s])
                ELSE <<>>
  /\ UNCHANGED <<sessionVars, callVars, msgVars, now, extVars>>

\* The settings objects clients send: any flag may be left undefined.
SettingsInputs ==
  {[k \in {"muteAudio"} |-> TRUE], [k \in {"muteAudio"} |-> FALSE],
   [k \in {"muteVideo", "recordCall"} |-> TRUE]}

\* if (settings.x !== undefined) call.settings.x = settings.x, for each flag.
ApplySettings(old, upd) ==
  [k \in SettingKeys |-> IF k \in DOMAIN upd THEN upd[k] ELSE old[k]]

\* socket.on('update_call_settings')
UpdateCallSettings(s, callId, upd) ==
  LET userId == socketUserId[s] IN
  /\ Open(s)
  /\ IF callId \notin CallIds
       THEN /\ emits' = ErrorReply("call_error", "Call not found")
            /\ UNCHANGED calls
       ELSE IF calls[callId].caller # userId /\ calls[callId].receiver # userId
       THEN /\ emits' = ErrorReply("call_error", "Not a participant in this call")
            /\ UNCHANGED calls
       ELSE /\ calls' = [calls EXCEPT ![callId].settings = ApplySettings(@, upd)]
            /\ emits' = (IF callId \in DOMAIN activeCalls
                           THEN EmitTo(TargetSocket(activeCalls[callId], s),
                                       "call_settings_updated", callId, userId)
                           ELSE <<>>)
                        \o EmitTo(s, "call_settings_updated", callId, None)
  /\ UNCHANGED <<sessionVars, activeCalls, msgVars, now, extVars>>

\* router.put('/:callId/settings')
RestUpdateSettings(userId, callId, upd) ==
  /\ emits' = <<>>
  /\ IF \/ callId \notin CallIds
        \/ (calls[callId].caller # userId /\ calls[callId].receiver # userId)
        \/ calls[callId].status # "answered"
       THEN UNCHANGED calls
       ELSE calls' = [calls EXCEPT ![callId].settings = ApplySettings(@, upd)]
  /\ UNCHANGED <<sessionVars, activeCalls, msgVars, now, extVars>>

\* The points of the disconnect handlers at which a storage operation may
\* throw: 0 is the presence update, k >= 1 the lookup or update of call k.
FailurePoints == 0..MaxCalls

\* The registry entries the loop has finished with when storage throws at k.
VisitedBefore(s, k) == {id \in CallsOfSocket(s) : id < k}

RECURSIVE DisconnectCallEmitsBefore(_, _, _, _)
DisconnectCallEmitsBefore(id, k, O, s) ==
  IF id >= k THEN <<>>
  ELSE (IF id \in CallsOfSocket(s)
          THEN EmitToIn(O, TargetSocket(activeCalls[id], s), "call_ended", id,
                        "User disconnected")
          ELSE <<>>)
       \o DisconnectCallEmitsBefore(id + 1, k, O, s)

\* socket.on('disconnect') when storage throws at failAt: the exception
\* leaves the try block of the callHandler handler, whose catch only logs.
DisconnectStorageFailure(s, failAt) ==
  LET userId == socketUserId[s]
      O == OpenSockets \ {s}
  IN /\ Open(s)
     /\ userId # None
     /\ failAt = 0 \/ failAt \in CallsOfSocket(s)
     /\ sockState' = [sockState EXCEPT ![s] = "closed"]
     /\ rooms' = [rooms EXCEPT ![s] = {}]
     /\ socketUserId' = [socketUserId EXCEPT ![s] = None]
     /\ callUserSockets' = [callUserSockets EXCEPT ![userId] = None]
     /\ userSockets' = [userSockets EXCEPT ![userId] = None]
     /\ userChats' = [userChats EXCEPT ![userId] = NoChatSet]
     /\ IF failAt = 0
          THEN /\ emits' = <<>>
               /\ UNCHANGED <<isOnline, callVars>>
          ELSE /\ isOnline' = [isOnline EXCEPT ![userId] = FALSE]
               /\ calls' = [i \in DOMAIN calls |->
                              IF i \in VisitedBefore(s, failAt) /\ calls[i].status = "answered"
                                THEN endCall(calls[i]) ELSE calls[i]]
               /\ activeCalls' = RegistryDelete(activeCalls, VisitedBefore(s, failAt))
               /\ emits' = DisconnectCallEmitsBefore(1, failAt, O, s)
                           \o Broadcast(O, s, "user_offline", userId)
     /\ UNCHANGED <<msgVars, now, extVars>>

\* ------------------------------------------- REST edit and delete
\* The clock is in seconds. editTimeLimit and deleteTimeLimit of
\* routes/messages.js, 15 and 60 minutes.
editTimeLimit == 15 * 60

deleteTimeLimit == 60 * 60

\* The lengths of time that pass between requests.
ElapseSteps == {60, 14 * 60, 45 * 60}

Elapse(d) ==
  /\ now + d <= MaxMinutes * 60
  /\ now' = now + d
  /\ UNCHANGED <<sessionVars, callVars, msgVars, emits, extVars>>

\* messageSchema.methods.editMessage, before its save()
editMessage(doc, text) == [doc EXCEPT !.text = text]

\* messageSchema.methods.softDelete, before its save()
softDelete(doc, userId) ==
  IF ~doc.isDeleted
    THEN [doc EXCEPT !.isDeleted = TRUE, !.deletedBy = Append(@, userId)]
    ELSE doc

\* A lookup that leaves out the sender condition.
FindAnyLiveMessage(userId, messageId) ==
  messageId \in MessageIds /\ ~messages[messageId].isDeleted

\* Message.findOne({_id: messageId, sender: req.user._id, isDeleted: false})
FindOwnLiveMessage(userId, messageId) ==
  /\ messageId \in MessageIds
  /\ messages[messageId].sender = userId
  /\ ~messages[messageId].isDeleted

\* router.put('/:messageId'). editMessage() starts a save() of the document
\* and the route then awaits a second save() of the same document: Mongoose
\* rejects a save() issued while one is in flight (ParallelSaveError), so the
\* route leaves through its catch before it loads the chat, while the save
\* that editMessage() started writes the edit.
RestEditMessage(userId, messageId, text) ==
  /\ emits' = <<>>
  /\ IF ~FindOwnLiveMessage(userId, messageId)
       THEN UNCHANGED messages
       ELSE IF now - messages[messageId].createdAt > editTimeLimit
       THEN UNCHANGED messages
       ELSE messages' = [messages EXCEPT ![messageId] = editMessage(@, text)]
  /\ UNCHANGED <<sessionVars, callVars, chats, inflight, jobs, sends, now, extVars>>

\* router.delete('/:messageId'). softDelete() starts the save() that writes
\* the flag and the deletion record; the route's own save() is rejected as in
\* the edit route.
RestDeleteMessage(userId, messageId) ==
  /\ emits' = <<>>
  /\ IF ~FindOwnLiveMessage(userId, messageId)
       THEN UNCHANGED messages
       ELSE IF now - messages[messageId].createdAt > deleteTimeLimit
       THEN UNCHANGED messages
       ELSE messages' = [messages EXCEPT ![messageId] = softDelete(@, userId)]
  /\ UNCHANGED <<sessionVars, callVars, chats, inflight, jobs, sends, now, extVars>>

\* router.post('/:chatId/read') of routes/chats.js
RestMarkChatRead(userId, chatId) ==
  /\ emits' = <<>>
  /\ IF chatId \notin ChatFindForUser(userId)
       THEN UNCHANGED chats
       ELSE chats' = [chats EXCEPT ![chatId] = resetUnreadCount(@, userId)]
  /\ UNCHANGED <<sessionVars, callVars, messages, inflight, jobs, sends, now, extVars>>

\* ------------------------------------------------------ chat creation
\* The _id of the i-th chat created.
NewChatId(i) == <<"c2", "c3">>[i]

\* new Chat({participants: [...]}) with the schema defaults: type private.
NewChat(type, users) ==
  [type |-> type, isActive |-> TRUE, lastMessage |-> 0,
   participants |-> [k \in 1..Len(users) |-> [user |-> users[k], isActive |-> TRUE]]]

\* Users of a stored chat, for queries on 'participants.user'.
UsersOfStored(c) == {p.user : p \in chats[c].participants}

UsersOfNew(i) == {newChats[i].participants[k].user : k \in 1..Len(newChats[i].participants)}

\* {'participants.user': {$all: ids}}: every id is the user of some participant.
ChatWithAll(ids) ==
  \/ \E c \in Chats : ids \subseteq UsersOfStored(c)
  \/ \E i \in 1..Len(newChats) : ids \subseteq UsersOfNew(i)

\* friendId of a get-or-create body: absent or a user id.
FriendInputs == {None} \cup Users

\* router.post("/get-or-create"). The filter names isGroupChat, a path the
\* chat schema does not have: the query layer either strips it (stripped)
\* or passes it on, and then no stored chat matches. No test that friendId
\* differs from the requester.
RestGetOrCreate(currentUserId, friendId, stripped) ==
  /\ Len(newChats) < MaxNewChats
  /\ emits' = <<>>
  /\ IF friendId = None \/ (stripped /\ ChatWithAll({currentUserId, friendId}))
       THEN UNCHANGED newChats
       ELSE newChats' = Append(newChats, NewChat("private", <<currentUserId, friendId>>))
  /\ UNCHANGED <<sessionVars, callVars, msgVars, now, authVars, presenceWrites>>

ChatTypeInputs == {"private", "group"}

\* participants of a POST /api/chats body: one or two user ids.
ParticipantLists == {<<u>> : u \in Users} \cup {<<u, v>> : u \in Users, v \in Users}

SeqRange(q) == {q[k] : k \in 1..Len(q)}

\* Chat.findOne({type: 'private', 'participants.user': {$all: ids},
\*               'participants.isActive': true, isActive: true})
PrivateChatExists(ids) ==
  \/ \E c \in Chats : /\ chats[c].isActive
                      /\ ids \subseteq UsersOfStored(c)
                      /\ \E p \in chats[c].participants : p.isActive
  \/ \E i \in 1..Len(newChats) :
        /\ newChats[i].type = "private" /\ newChats[i].isActive
        /\ ids \subseteq UsersOfNew(i)
        /\ \E k \in 1..Len(newChats[i].participants) : newChats[i].participants[k].isActive

\* router.post('/') of routes/chats.js. User.find({_id: {$in: ids}}) returns
\* one user per distinct id, so a list that repeats an id is refused.
RestCreateChat(creatorId, type, ids) ==
  LET withCreator == IF type = "group" /\ creatorId \notin SeqRange(ids)
                       THEN Append(ids, creatorId) ELSE ids
  IN /\ Len(newChats) < MaxNewChats
     /\ emits' = <<>>
     /\ IF \/ Cardinality(SeqRange(ids)) # Len(ids)
           \/ (type = "private" /\ Len(ids) # 2)
           \/ (type = "private" /\ PrivateChatExists(SeqRange(ids)))
          THEN UNCHANGED newChats
          ELSE newChats' = Append(newChats, NewChat(type, withCreator))
     /\ UNCHANGED <<sessionVars, callVars, msgVars, now, authVars, presenceWrites>>

\* Chat.findOne({isActive: true, participants: {$all: [{$elemMatch: {user:
\* senderId, isActive: true}}, {$elemMatch: {user: receiverId, isActive: true}}]}})
\* over the chats created since the start.
NewChatsOfActivePair(senderId, receiverId) ==
  {i \in 1..Len(newChats) :
     /\ newChats[i].isActive
     /\ \E k \in 1..Len(newChats[i].participants) :
          newChats[i].participants[k] = [user |-> senderId, isActive |-> TRUE]
     /\ \E k \in 1..Len(newChats[i].participants) :
          newChats[i].participants[k] = [user |-> receiverId, isActive |-> TRUE]}

\* socket.on("send_message") of socketHandler.js, for a payload without a
\* stored chat id and with a receiverId with whom no chat is found: the
\* handler creates the chat, then saves the message into it.
SendMessageCreateChat(s, receiverId) ==
  LET senderId == socketUserId[s]
      id == Len(messages) + 1
      chatId == NewChatId(Len(newChats) + 1)
  IN /\ Open(s)
     /\ senderId # None
     /\ Len(messages) < MaxMessages
     /\ Len(newChats) < MaxNewChats
     /\ ChatsOfActivePair(senderId, receiverId) = {}
     /\ NewChatsOfActivePair(senderId, receiverId) = {}
     /\ newChats' = Append(newChats,
                      [NewChat("private", <<senderId, receiverId>>) EXCEPT !.lastMessage = id])
     /\ messages' = Append(messages, NewMessage(chatId, senderId))
     /\ emits' = RoomEmit(s, chatId, "new_message", id)
                 \o EmitTo(s, "message_sent", id, None)
     /\ UNCHANGED <<sessionVars, callVars, chats, inflight, jobs, sends, now, authVars, presenceWrites>>

\* ------------------------------------------------------- REST /api/auth
UsernameInputs == {"testuser", "seconduser"}

EmailInputs == {"test@example.com", "Test@Example.com", "second@example.com"}

PasswordInputs == {"password123", "password456"}

\* normalizeEmail() of the validators, and lowercase: true of the schema.
normalizeEmail(email) == IF email = "Test@Example.com" THEN "test@example.com" ELSE email

\* userSchema.pre('save'): the stored password is the bcrypt hash.
Hash(password) == <<"bcrypt", password>>

\* userSchema.methods.comparePassword
comparePassword(user, candidatePassword) == user.password = Hash(candidatePassword)

\* generateToken(user._id)
generateToken(user) == [sub |-> user.username]

\* The value the promise of the async getFullProfile() resolves to.
getFullProfile(user) == [username |-> user.username, email |-> user.email]

\* res.json({data: {user: <promise>}}): the routes pass the promise that
\* getFullProfile() returns, not its value, and JSON.stringify of a promise
\* is {} whatever it resolves to.
JsonOfPromise(value) == NoProfile

Reply(status, success, user, token) ==
  [status |-> status, success |-> success, user |-> user, token |-> token]

\* router.post('/register')
RestRegister(username, email, password) ==
  LET em == normalizeEmail(email)
      user == [username |-> username, email |-> em, password |-> Hash(password),
               isOnline |-> FALSE]
  IN /\ IF \/ \E a \in accounts : a.username = username
           \/ \E a \in accounts : a.email = em
          THEN /\ response' = Reply(400, FALSE, NoProfile, NoToken)
               /\ UNCHANGED accounts
          ELSE /\ accounts' = accounts \cup {user}
               /\ response' = Reply(201, TRUE, JsonOfPromise(getFullProfile(user)),
                                    generateToken(user))
     /\ emits' = <<>>
     /\ UNCHANGED <<sessionVars, callVars, msgVars, now, newChats, presenceWrites>>

\* router.post('/login')
RestLogin(email, password) ==
  LET em == normalizeEmail(email)
      found == {a \in accounts : a.email = em}
      user == CHOOSE a \in found : TRUE
  IN /\ IF found = {} \/ ~comparePassword(user, password)
          THEN /\ response' = Reply(401, FALSE, NoProfile, NoToken)
               /\ UNCHANGED accounts
          ELSE /\ accounts' = (accounts \ {user}) \cup {[user EXCEPT !.isOnline = TRUE]}
               /\ response' = Reply(200, TRUE,
                                    JsonOfPromise(getFullProfile([user EXCEPT !.isOnline = TRUE])),
                                    generateToken(user))
     /\ emits' = <<>>
     /\ UNCHANGED <<sessionVars, callVars, msgVars, now, newChats, presenceWrites>>

\* ------------------------------------------- presence writes in flight
\* The two modules that handle `authenticate` and `disconnect` on a socket.
Handlers == {"socketHandler", "callHandler"}

\* User.findByIdAndUpdate(userId, {isOnline, lastSeen}) as issued by one
\* handler of one socket; done once the update has been applied and the
\* handler has run to its end.
PresenceWrite(s, userId, online, handler) ==
  [socket |-> s, user |-> userId, online |-> online, handler |-> handler,
   done |-> FALSE]

\* Every handler that has issued its update has finished.
NoPresenceWriteInFlight ==
  \A i \in 1..Len(presenceWrites) : presenceWrites[i].done

\* socket.on('authenticate') of socketHandler and of callHandler with a valid
\* token, each up to its await of User.findByIdAndUpdate: the registries and
\* socket.userId are set, `authenticated` is emitted and the update is issued.
AuthenticateIssue(s, userId) ==
  /\ Open(s)
  /\ Len(presenceWrites) < 2 * MaxPresenceEvents
  /\ userSockets' = [userSockets EXCEPT ![userId] = s]
  /\ callUserSockets' = [callUserSockets EXCEPT ![userId] = s]
  /\ socketUserId' = [socketUserId EXCEPT ![s] = userId]
  /\ presenceWrites' = presenceWrites
                        \o <<PresenceWrite(s, userId, TRUE, "socketHandler"),
                             PresenceWrite(s, userId, TRUE, "callHandler")>>
  /\ emits' = EmitTo(s, "authenticated", 0, None) \o EmitTo(s, "authenticated", 0, None)
  /\ UNCHANGED <<sockState, userChats, rooms, isOnline, callVars, msgVars, now,
                 newChats, authVars>>

\* socket.on('disconnect') of socketHandler and of callHandler, each up to its
\* await of User.findByIdAndUpdate: the registry entries of socket.userId are
\* deleted and the update is issued. The socket object is discarded with its
\* rooms and its userId property.
DisconnectIssue(s) ==
  LET userId == socketUserId[s]
  IN /\ Open(s)
     /\ userId # None => Len(presenceWrites) < 2 * MaxPresenceEvents
     /\ sockState' = [sockState EXCEPT ![s] = "closed"]
     /\ rooms' = [rooms EXCEPT ![s] = {}]
     /\ socketUserId' = [socketUserId EXCEPT ![s] = None]
     /\ emits' = <<>>
     /\ IF userId = None
          THEN UNCHANGED <<userSockets, callUserSockets, userChats, presenceWrites>>
          ELSE /\ userSockets' = [userSockets EXCEPT ![userId] = None]
               /\ callUserSockets' = [callUserSockets EXCEPT ![userId] = None]
               /\ userChats' = [userChats EXCEPT ![userId] = NoChatSet]
               /\ presenceWrites' = presenceWrites
                     \o <<PresenceWrite(s, userId, FALSE, "socketHandler"),
                          PresenceWrite(s, userId, FALSE, "callHandler")>>
     /\ UNCHANGED <<isOnline, callVars, msgVars, now, newChats, authVars>>

\* One issued update is applied by the database and its handler resumes and
\* runs to its end. Updates in flight at the same time travel on separate
\* pooled connections, so they are applied in any order. The rest of the
\* handler: the room joins and user_online of authenticate (a socket that has
\* disconnected meanwhile joins nothing an emit can reach), the call cleanup
\* and user_offline of disconnect.
PresenceResolve(i) ==
  LET w == presenceWrites[i]
      O == OpenSockets \ {w.socket}
  IN /\ ~w.done
     /\ isOnline' = [isOnline EXCEPT ![w.user] = w.online]
     /\ presenceWrites' = [presenceWrites EXCEPT ![i].done = TRUE]
     /\ IF w.online /\ w.handler = "socketHandler"
          THEN /\ userChats' = [userChats EXCEPT
                                  ![w.user] = ChatSet(ChatFindForUser(w.user))]
               /\ rooms' = IF Open(w.socket)
                             THEN [rooms EXCEPT
                                     ![w.socket] = @ \cup ChatFindForUser(w.user)]
                             ELSE rooms
          ELSE UNCHANGED <<userChats, rooms>>
     /\ IF ~w.online /\ w.handler = "callHandler"
          THEN /\ calls' = DisconnectEndCalls(w.socket)
               /\ activeCalls' = RegistryDelete(activeCalls, CallsOfSocket(w.socket))
          ELSE UNCHANGED callVars
     /\ emits' = (IF ~w.online /\ w.handler = "callHandler"
                    THEN DisconnectCallEmits(1, O, w.socket) ELSE <<>>)
                 \o Broadcast(O, w.socket,
                              IF w.online THEN "user_online" ELSE "user_offline",
                              w.user)
     /\ UNCHANGED <<sockState, socketUserId, userSockets, callUserSockets,
                    msgVars, now, newChats, authVars>>

\* The account whose token the client behind each connection holds.
Owner == [s \in Sockets |-> CASE s = "s1" -> "u1" [] s = "s2" -> "u2" [] OTHER -> "u3"]

\* Sessions in which every client authenticates with its own account's token.
DeviceSessionNext ==
  \/ \E s \in Sockets : Connect(s)
  \/ \E s \in Sockets : Authenticate(s, Owner[s], Owner[s])
  \/ \E s \in Sockets : Disconnect(s)

\* Call events of clients none of which calls its own account.
SocketCallNext ==
  \/ \E s \in Sockets : \E r \in Users \ {socketUserId[s]}, ty \in CallTypeInputs :
        InitiateCall(s, r, ty)
  \/ \E s \in Sockets, id \in CallIdInputs : EndCall(s, id)
  \/ \E s \in Sockets, id \in CallIdInputs : AnswerCall(s, id)
  \/ \E s \in Sockets, id \in CallIdInputs : RejectCall(s, id)

RestCallNext ==
  \/ \E u \in Users, r \in Users, ty \in CallTypeInputs : RestInitiate(u, r, ty)
  \/ \E u \in Users, id \in CallIdInputs : RestAnswer(u, id)
  \/ \E u \in Users, id \in CallIdInputs : RestReject(u, id)
  \/ \E u \in Users, id \in CallIdInputs : RestEnd(u, id)

CallNext == DeviceSessionNext \/ SocketCallNext \/ RestCallNext

\* Sessions and calls, socket and REST.
SpecCall == Init /\ [][CallNext]_vars

\* Message events of the socket handlers and the REST message listing.
MessageNext ==
  \/ \E s \in Sockets, c \in ChatIdInputs : SendMessage(s, c)
  \/ \E s \in Sockets, m \in MessageIdInputs : AckLoad(s, "message_delivered", m)
  \/ \E s \in Sockets, m \in MessageIdInputs : AckLoad(s, "message_read", m)
  \/ \E s \in Sockets : AckSave(s)
  \/ \E s \in Sockets, m \in MessageIdInputs : AckIgnored(s, m)
  \/ \E s \in Sockets, m \in MessageIdInputs : MessageDeliveredAddToSet(s, m)
  \/ \E s \in Sockets, m \in MessageIdInputs : MessageReadAddToSet(s, m)
  \/ \E s \in Sockets, c \in ChatIdInputs, ids \in MessageIdLists : MarkRead(s, c, ids)
  \/ \E u \in Users, c \in ChatIdInputs : RestGetMessagesLoad(u, c)
  \/ \E u \in Users : RestGetMessagesSave(u)
  \/ \E u \in Users, c \in ChatIdInputs : RestGetMessagesNoWrite(u, c)

\* The two clients of the chat's participants.
ChatSockets == {"s1", "s2"}

ChatSessionNext ==
  \/ \E s \in ChatSockets : Connect(s)
  \/ \E s \in ChatSockets : Authenticate(s, Owner[s], Owner[s])
  \/ \E s \in ChatSockets : Disconnect(s)

MsgNext == ChatSessionNext \/ MessageNext

\* Sessions and messages.
SpecMsg == Init /\ [][MsgNext]_vars

\* The rooms a client asks for: its chats and the room named after its account.
OwnRooms(s) == Chats \cup {UserRoom(Owner[s])}

\* Sending: the two send paths, the delivery worker, room joins and the
\* deactivation of participants.
SendNext ==
  \/ ChatSessionNext
  \/ \E s \in ChatSockets, c \in ChatIdInputs : SendMessage(s, c)
  \/ \E s \in ChatSockets, c \in ChatIdInputs, r \in ReceiverInputs :
        SendMessageByReceiver(s, c, r)
  \/ \E u \in Users, c \in ChatIdInputs : RestSendMessage(u, c)
  \/ \E m \in MessageIds : DeliverJob(m)
  \/ \E s \in ChatSockets : \E c \in OwnRooms(s) : JoinChat(s, c)
  \/ \E s \in ChatSockets : \E c \in OwnRooms(s) : LeaveChat(s, c)
  \/ \E c \in Chats, u \in Users : RemoveParticipant(c, u)

SpecSend == Init /\ [][SendNext]_vars

\* Overlapping send_message handlers.
SendRaceNext ==
  \/ ChatSessionNext
  \/ \E s \in ChatSockets, c \in ChatIdInputs : SendReceive(s, c)
  \/ \E h \in SendIds : SendFind(h)
  \/ \E h \in SendIds : SendFinish(h)

SpecSendRace == Init /\ [][SendRaceNext]_vars

\* Calls set up and ended over sockets, with the signaling relays.
SignalNext ==
  \/ DeviceSessionNext
  \/ \E s \in Sockets : \E r \in Users \ {socketUserId[s]}, ty \in CallTypeInputs :
        InitiateCall(s, r, ty)
  \/ \E s \in Sockets, id \in CallIdInputs : EndCall(s, id)
  \/ \E s \in Sockets, id \in CallIdInputs : WebrtcOffer(s, id)
  \/ \E s \in Sockets, id \in CallIdInputs : WebrtcAnswer(s, id)
  \/ \E s \in Sockets, id \in CallIdInputs : WebrtcIceCandidate(s, id)

SpecSignal == Init /\ [][SignalNext]_vars

\* Calls between two connected clients, ended over sockets or REST, with the
\* clock advancing.
TimedCallNext ==
  \/ ChatSessionNext
  \/ \E s \in Sockets : \E r \in Users \ {socketUserId[s]}, ty \in CallTypeInputs :
        InitiateCall(s, r, ty)
  \/ \E s \in Sockets, id \in CallIdInputs : AnswerCall(s, id)
  \/ \E s \in Sockets, id \in CallIdInputs : EndCall(s, id)
  \/ \E u \in Users, id \in CallIdInputs : RestEnd(u, id)
  \/ Tick

SpecTimedCall == Init /\ [][TimedCallNext]_vars

\* Calls between two connected clients with settings updates, socket and REST.
SettingsNext ==
  \/ ChatSessionNext
  \/ \E s \in Sockets : \E r \in Users \ {socketUserId[s]}, ty \in CallTypeInputs :
        InitiateCall(s, r, ty)
  \/ \E s \in Sockets, id \in CallIdInputs : AnswerCall(s, id)
  \/ \E s \in Sockets, id \in CallIdInputs : EndCall(s, id)
  \/ \E s \in Sockets, id \in CallIdInputs, upd \in SettingsInputs :
        UpdateCallSettings(s, id, upd)
  \/ \E u \in Users, id \in CallIdInputs, upd \in SettingsInputs :
        RestUpdateSettings(u, id, upd)

SpecSettings == Init /\ [][SettingsNext]_vars

\* Calls between two connected clients whose disconnects may meet a storage
\* failure.
CleanupNext ==
  \/ ChatSessionNext
  \/ \E s \in Sockets : \E r \in Users \ {socketUserId[s]}, ty \in CallTypeInputs :
        InitiateCall(s, r, ty)
  \/ \E s \in Sockets, id \in CallIdInputs : AnswerCall(s, id)
  \/ \E s \in Sockets, k \in FailurePoints : DisconnectStorageFailure(s, k)

SpecCleanup == Init /\ [][CleanupNext]_vars

\* Messages sent, edited and deleted over REST as time passes.
EditNext ==
  \/ \E u \in Users, c \in ChatIdInputs : RestSendMessage(u, c)
  \/ \E u \in Users, m \in MessageIdInputs, text \in Texts : RestEditMessage(u, m, text)
  \/ \E u \in Users, m \in MessageIdInputs : RestDeleteMessage(u, m)
  \/ \E d \in ElapseSteps : Elapse(d)

SpecEdit == Init /\ [][EditNext]_vars

\* Chats created over REST and by the socket send, with participant removal.
ChatCreateNext ==
  \/ ChatSessionNext
  \/ \E u \in Users, f \in FriendInputs, stripped \in BOOLEAN : RestGetOrCreate(u, f, stripped)
  \/ \E u \in Users, ty \in ChatTypeInputs, ids \in ParticipantLists :
        RestCreateChat(u, ty, ids)
  \/ \E s \in ChatSockets, r \in Users : SendMessageCreateChat(s, r)
  \/ \E c \in Chats, u \in Users : RemoveParticipant(c, u)

SpecChatCreate == Init /\ [][ChatCreateNext]_vars

\* Calls of two connected clients to any account, their own included.
AnyCalleeNext ==
  \/ ChatSessionNext
  \/ \E s \in Sockets, r \in Users, ty \in CallTypeInputs : InitiateCall(s, r, ty)
  \/ \E u \in Users, r \in Users, ty \in CallTypeInputs : RestInitiate(u, r, ty)
  \/ \E s \in Sockets, id \in CallIdInputs : EndCall(s, id)

SpecAnyCallee == Init /\ [][AnyCalleeNext]_vars

\* Overlapping sends of clients that stay connected, with the read actions
\* that reset unread counters (mark_read with an empty id list).
UnreadNext ==
  \/ \E s \in ChatSockets : Connect(s)
  \/ \E s \in ChatSockets : Authenticate(s, Owner[s], Owner[s])
  \/ \E s \in ChatSockets, c \in Chats : SendReceive(s, c)
  \/ \E h \in SendIds : SendFind(h)
  \/ \E h \in SendIds : SendFinish(h)
  \/ \E s \in ChatSockets, c \in ChatIdInputs : MarkRead(s, c, <<>>)
  \/ \E u \in Users, c \in ChatIdInputs : RestMarkChatRead(u, c)

SpecUnread == Init /\ [][UnreadNext]_vars

\* Registration and login.
AuthNext ==
  \/ \E un \in UsernameInputs, em \in EmailInputs, pw \in PasswordInputs :
        RestRegister(un, em, pw)
  \/ \E em \in EmailInputs, pw \in PasswordInputs : RestLogin(em, pw)

SpecAuth == Init /\ [][AuthNext]_vars

\* The clients that acknowledge: the recipient's and one of an account that
\* is in no chat.
AckSockets == {"s2", "s3"}

\* Acknowledgements from a participant of the chat and from another account.
OutsiderAckNext ==
  \/ \E s \in Sockets : Connect(s)
  \/ \E s \in Sockets : Authenticate(s, Owner[s], Owner[s])
  \/ \E c \in Chats : SendMessage("s1", c)
  \/ \E s \in AckSockets, m \in MessageIds : AckLoad(s, "message_delivered", m)
  \/ \E s \in AckSockets, m \in MessageIds : AckLoad(s, "message_read", m)
  \/ \E s \in AckSockets : AckSave(s)
  \/ \E s \in AckSockets, m \in MessageIds : MessageDeliveredAddToSet(s, m)
  \/ \E s \in AckSockets, m \in MessageIds : MessageReadAddToSet(s, m)
  \/ \E s \in AckSockets, c \in Chats, m \in MessageIds : MarkRead(s, c, <<m>>)

SpecOutsiderAck == Init /\ [][OutsiderAckNext]_vars

\* Connections of one account whose authenticate and disconnect handlers
\* overlap at their storage awaits.
PresenceNext ==
  \/ \E s \in ChatSockets : Connect(s)
  \/ \E s \in ChatSockets : AuthenticateIssue(s, "u1")
  \/ \E s \in ChatSockets : DisconnectIssue(s)
  \/ \E i \in 1..Len(presenceWrites) : PresenceResolve(i)

SpecPresence == Init /\ [][PresenceNext]_vars

\* Sessions with explicit room joins and leaves.
RoomNext ==
  \/ DeviceSessionNext
  \/ \E s \in Sockets, c \in ChatIdInputs : JoinChat(s, c)
  \/ \E s \in Sockets, c \in ChatIdInputs : LeaveChat(s, c)

SpecRooms == Init /\ [][RoomNext]_vars

\* Sessions alone, any client presenting any token.
SpecSession == Init /\ [][SessionNext]_vars

\* A client that calls the account it is authenticated as.
SelfCallNext ==
  \E s \in Sockets, ty \in CallTypeInputs :
     socketUserId[s] # None /\ InitiateCall(s, socketUserId[s], ty)

Next ==
  \/ SessionNext
  \/ CallNext
  \/ SelfCallNext
  \/ MessageNext
  \/ SendNext
  \/ SendRaceNext
  \/ \E u \in Users, id \in CallIdInputs : RestDeleteCall(u, id)
  \/ Tick

Spec == Init /\ [][Next]_vars
\* ================================================================ claims
LiveSocketsOf(u) == {s \in Sockets : Open(s) /\ socketUserId[s] = u}

Participant(u, id) == calls[id].caller = u \/ calls[id].receiver = u

RegisteredNonTerminalCallsOf(u) ==
  {id \in DOMAIN activeCalls : calls[id].status \in NonTerminal /\ Participant(u, id)}

\* C1: in every reachable state every user is caller or receiver of at most
\* one non-terminal call held by the call registry.
C1_AtMostOneActiveCallPerUser ==
  \A u \in Users : Cardinality(RegisteredNonTerminalCallsOf(u)) <= 1

StatusRank(st) == CASE st = "sent" -> 1 [] st = "delivered" -> 2 [] OTHER -> 3

\* C2: the status of a message never moves backwards along
\* sent -> delivered -> read, whatever the interleaving of the load, mutate
\* and save steps of the acknowledgement handlers.
C2_StatusNeverRegresses ==
  [][\A m \in MessageIds :
       StatusRank(messages'[m].status) >= StatusRank(messages[m].status)]_vars

Occurrences(acks, u) == Cardinality({i \in 1..Len(acks) : acks[i] = u})

\* C3: marking a message delivered or read is idempotent: a user appears in
\* the delivered set and in the read set of a message at most once.
C3_AcksHoldEachUserOnce ==
  \A m \in MessageIds, u \in Users :
     /\ Occurrences(messages[m].deliveredTo, u) <= 1
     /\ Occurrences(messages[m].readBy, u) <= 1

\* C4: a disconnect removes the registry mapping of that connection only: when
\* the user has another live authenticated connection s2, both session
\* registries map the user to s2 after the disconnect of s1.
C4_DisconnectKeepsOtherSession ==
  [][\A s1 \in Sockets, s2 \in Sockets :
       (/\ s1 # s2
        /\ socketUserId[s1] # None
        /\ s2 \in LiveSocketsOf(socketUserId[s1])
        /\ Disconnect(s1))
       => /\ userSockets'[socketUserId[s1]] = s2
          /\ callUserSockets'[socketUserId[s1]] = s2]_vars

UserOfflinePublished(u, evs) ==
  \E i \in 1..Len(evs) : evs[i].ev = "user_offline" /\ evs[i].who = u

\* C5: a user is marked offline, and user_offline is published, only by the
\* disconnect of that user's last live connection: a step that does either
\* leaves the user no live authenticated connection.
C5_OfflineOnlyOnLastDisconnect ==
  [][\A u \in Users :
       ((isOnline[u] /\ ~isOnline'[u]) \/ UserOfflinePublished(u, emits'))
       => \A s \in Sockets : ~(sockState'[s] = "open" /\ socketUserId'[s] = u)]_vars

AllowedTransitions ==
  {<<"initiating", "ringing">>, <<"ringing", "answered">>, <<"answered", "ended">>,
   <<"ringing", "rejected">>, <<"ringing", "missed">>,
   <<"initiating", "ended">>, <<"ringing", "ended">>}

\* C6: every status change of a call follows the state machine, and a status
\* that is ended, rejected or missed never changes again.
C6_TransitionsFollowStateMachine ==
  [][\A id \in CallIds :
       calls'[id].status # calls[id].status
       => <<calls[id].status, calls'[id].status>> \in AllowedTransitions]_vars

MayAnswer(u, id) ==
  id \in CallIds /\ u = calls[id].receiver /\ calls[id].status = "ringing"

\* C7: Answer succeeds only for the receiver of a ringing call; any other
\* answer, by socket answer_call or by REST, leaves the call records and the
\* call registry unchanged.
C7_AnswerOnlyByReceiverWhenRinging ==
  [][/\ \A s \in Sockets, id \in CallIdInputs :
          (AnswerCall(s, id) /\ ~MayAnswer(socketUserId[s], id))
          => UNCHANGED callVars
     /\ \A u \in Users, id \in CallIdInputs :
          (RestAnswer(u, id) /\ ~MayAnswer(u, id)) => UNCHANGED callVars]_vars

MayEnd(u, id) ==
  id \in CallIds /\ Participant(u, id) /\ calls[id].status \in NonTerminal

Ended(id) == calls'[id].status = "ended" /\ calls'[id].endTime # NoTime

\* C8: End succeeds for a participant from any non-terminal state and then
\* sets status ended and endTime; an End by a non-participant, or of a
\* terminal call, leaves the call records and the registry unchanged; by
\* socket end_call and by REST.
C8_EndOnlyByParticipantWhenNonTerminal ==
  [][/\ \A s \in Sockets, id \in CallIdInputs :
          EndCall(s, id)
          => IF MayEnd(socketUserId[s], id) THEN Ended(id) ELSE UNCHANGED callVars
     /\ \A u \in Users, id \in CallIdInputs :
          RestEnd(u, id)
          => IF MayEnd(u, id) THEN Ended(id) ELSE UNCHANGED callVars]_vars

CallerNotified(id, ev, evs) ==
  \E i \in 1..Len(evs) :
     /\ evs[i].ev = ev
     /\ evs[i].ref = id
     /\ socketUserId[evs[i].to] = calls[id].caller

Rejected(id) ==
  /\ calls'[id].status = "rejected"
  /\ calls'[id].endTime # NoTime
  /\ id \notin DOMAIN activeCalls'
  /\ (LiveSocketsOf(calls[id].caller) # {}
        => CallerNotified(id, "call_rejected", emits'))

\* C9: Reject succeeds exactly when the requester is the receiver and the call
\* is ringing; it then sets status rejected and endTime, removes the call
\* from the registry and notifies the caller (when the caller has a live
\* connection); otherwise the call records and the registry are unchanged.
C9_RejectOnlyByReceiverWhenRinging ==
  [][/\ \A s \in Sockets, id \in CallIdInputs :
          RejectCall(s, id)
          => IF MayAnswer(socketUserId[s], id) THEN Rejected(id)
             ELSE UNCHANGED callVars
     /\ \A u \in Users, id \in CallIdInputs :
          RestReject(u, id)
          => IF MayAnswer(u, id) THEN Rejected(id) ELSE UNCHANGED callVars]_vars

OtherParty(u, id) ==
  IF calls[id].caller = u THEN calls[id].receiver ELSE calls[id].caller

PeerToldOfDisconnect(u, id, evs) ==
  \E i \in 1..Len(evs) :
     /\ evs[i].ev = "call_ended"
     /\ evs[i].ref = id
     /\ evs[i].who = "User disconnected"
     /\ socketUserId[evs[i].to] = OtherParty(u, id)

\* C10: when a user's last connection disconnects, every non-terminal call
\* involving that user is ended in storage, leaves the call registry, and the
\* other party (when it has a live connection) is sent call_ended with the
\* peer-disconnected reason.
C10_DisconnectEndsCalls ==
  [][\A s \in Sockets :
       (/\ socketUserId[s] # None
        /\ LiveSocketsOf(socketUserId[s]) = {s}
        /\ Disconnect(s))
       => \A id \in CallIds :
            (calls[id].status \in NonTerminal /\ Participant(socketUserId[s], id))
            => /\ calls'[id].status = "ended"
               /\ id \notin DOMAIN activeCalls'
               /\ (LiveSocketsOf(OtherParty(socketUserId[s], id)) \ {s} # {}
                     => PeerToldOfDisconnect(socketUserId[s], id, emits'))]_vars

Busy(u) == RegisteredNonTerminalCallsOf(u) # {}

\* C11: an Initiate whose caller or receiver is already party to a
\* non-terminal call of the call registry fails: it creates no call record
\* and no registry entry; by socket initiate_call and by REST.
C11_InitiateFailsWhenBusy ==
  [][/\ \A s \in Sockets, r \in Users, ty \in CallTypeInputs :
          (/\ socketUserId[s] # None
           /\ Busy(socketUserId[s]) \/ Busy(r)
           /\ InitiateCall(s, r, ty))
          => UNCHANGED callVars
     /\ \A u \in Users, r \in Users, ty \in CallTypeInputs :
          ((Busy(u) \/ Busy(r)) /\ RestInitiate(u, r, ty))
          => UNCHANGED callVars]_vars

BadCredential(userId, token) ==
  token = "missing" \/ token = "invalid" \/ (token \in Users /\ token # userId)

Sent(ev, to, evs) == \E i \in 1..Len(evs) : evs[i].ev = ev /\ evs[i].to = to

Published(ev, evs) == \E i \in 1..Len(evs) : evs[i].ev = ev

\* C12: an authenticate with a missing token, a token that fails
\* verification or a token of another identity yields authentication_error
\* and changes nothing: registries, socket.userId, presence and rooms are as
\* before and no user_online is broadcast.
C12_FailedAuthenticateChangesNothing ==
  [][\A s \in Sockets, u \in Users, tk \in Tokens :
       (BadCredential(u, tk) /\ Authenticate(s, u, tk))
       => /\ UNCHANGED sessionVars
          /\ Sent("authentication_error", s, emits')
          /\ ~Published("user_online", emits')
          /\ ~Published("authenticated", emits')]_vars

\* A connection that is still unauthenticated has just been refused while
\* another user is online.
C12_Witness ==
  \E s \in Sockets :
     /\ Open(s)
     /\ socketUserId[s] = None
     /\ Sent("authentication_error", s, emits)
     /\ \E u \in Users : isOnline[u]

CallEventOf(s) ==
  \/ \E r \in Users, ty \in CallTypeInputs : InitiateCall(s, r, ty)
  \/ \E id \in CallIdInputs : AnswerCall(s, id) \/ RejectCall(s, id) \/ EndCall(s, id)

OnlyToRequester(s, evs) ==
  \A i \in 1..Len(evs) : evs[i].to = s \/ evs[i].to = "requester"

\* C13: a call event (initiate, answer, reject, end) received on a connection
\* that has not authenticated changes no call record and no registry entry
\* and sends nothing to any other connection.
C13_UnauthenticatedEventsChangeNothing ==
  [][\A s \in Sockets :
       (Open(s) /\ socketUserId[s] = None /\ CallEventOf(s))
       => UNCHANGED callVars /\ OnlyToRequester(s, emits')]_vars

ActiveParticipant(u, c) ==
  c \in Chats /\ \E p \in chats[c].participants : p.user = u /\ p.isActive

\* C14: a SendMessage by a user who is not an active participant of the
\* chat (a participant whose own isActive flag is false included) persists
\* no message, leaves the chat as it is and broadcasts nothing; by socket
\* send_message and by REST.
C14_SendByNonParticipantFails ==
  [][/\ \A s \in Sockets, c \in ChatIdInputs :
          (/\ socketUserId[s] # None
           /\ ~ActiveParticipant(socketUserId[s], c)
           /\ SendMessage(s, c))
          => UNCHANGED <<chats, messages>> /\ OnlyToRequester(s, emits')
     /\ \A u \in Users, c \in ChatIdInputs :
          (~ActiveParticipant(u, c) /\ RestSendMessage(u, c))
          => UNCHANGED <<chats, messages, jobs>>]_vars

NewMessagesTo(sb, evs) == {i \in 1..Len(evs) : evs[i].ev = "new_message" /\ evs[i].to = sb}

\* A's socket sa and B's only socket sb, B joined to the room of the
\* two-participant chat c in which both are active and B has nothing unread.
TwoPartyChatReady(sa, sb, c) ==
  /\ c \in Chats
  /\ sa # sb
  /\ socketUserId[sa] # None /\ socketUserId[sb] # None
  /\ socketUserId[sa] # socketUserId[sb]
  /\ {p.user : p \in chats[c].participants} = {socketUserId[sa], socketUserId[sb]}
  /\ \A p \in chats[c].participants : p.isActive
  /\ LiveSocketsOf(socketUserId[sb]) = {sb}
  /\ c \in rooms[sb]
  /\ chats[c].unreadCount[socketUserId[sb]] = 0

SendOn(sa, c) ==
  SendMessage(sa, c) \/ \E r \in ReceiverInputs : SendMessageByReceiver(sa, c, r)

\* C15: when A sends one message to a two-participant chat whose other
\* participant B is connected and joined to the room, B's connection gets
\* exactly one new_message, B's unread counter goes from 0 to 1 and A's
\* counter is unchanged.
C15_SendNotifiesAndCountsOnce ==
  [][\A sa \in Sockets, sb \in Sockets, c \in Chats :
       (TwoPartyChatReady(sa, sb, c) /\ SendOn(sa, c))
       => /\ Cardinality(NewMessagesTo(sb, emits')) = 1
          /\ chats'[c].unreadCount[socketUserId[sb]] = 1
          /\ chats'[c].unreadCount[socketUserId[sa]] =
               chats[c].unreadCount[socketUserId[sa]]]_vars

EventsTo(ev, to, evs) == {i \in 1..Len(evs) : evs[i].ev = ev /\ evs[i].to = to}

\* C16: the connection that sends a message gets no new_message for it and
\* exactly one message_sent; the delivery worker sends message:new to no
\* connection of the message's sender.
C16_SenderGetsOnlyMessageSent ==
  [][/\ \A s \in Sockets, c \in ChatIdInputs :
          (SendOn(s, c) /\ messages' # messages)
          => /\ EventsTo("new_message", s, emits') = {}
             /\ Cardinality(EventsTo("message_sent", s, emits')) = 1
     /\ \A m \in MessageIds :
          DeliverJob(m)
          => \A i \in 1..Len(emits') :
               emits'[i].ev = "message:new"
               => socketUserId[emits'[i].to] # messages[m].sender]_vars

SentByOthers(c, u) == {m \in MessageIds : messages[m].chat = c /\ messages[m].sender # u}

NoSendInFlight == \A h \in SendIds : sends[h].phase = "done"

\* C17: once all send handlers have completed, the unread counter of every
\* active participant equals the number of messages the other users sent to
\* the chat (no participant has read): no increment is lost when sends overlap.
C17_UnreadCountsEveryMessage ==
  NoSendInFlight
  => \A c \in Chats, u \in Users :
        ActiveParticipant(u, c)
        => chats[c].unreadCount[u] = Cardinality(SentByOthers(c, u))

\* C18: of two send_message events of one connection to one chat, every
\* room member that gets both new_message events gets the one of the earlier
\* send first: the earlier handler never broadcasts to a socket that has
\* already got the later handler's broadcast.
C18_SendOrderKept ==
  [][\A h1 \in SendIds, h2 \in SendIds :
       (/\ h1 < h2
        /\ sends[h1].socket = sends[h2].socket
        /\ sends[h1].chat = sends[h2].chat
        /\ sends[h2].phase = "done"
        /\ SendFinish(h1))
       => sends'[h1].to \cap sends[h2].to = {}]_vars

\* C19: every user in the read-by set of a message is also in its
\* delivered-to set.
C19_ReadImpliesDelivered ==
  \A m \in MessageIds, u \in Users :
     HasUser(messages[m].readBy, u) => HasUser(messages[m].deliveredTo, u)

DerivedStatus(msg) ==
  IF msg.readBy # <<>> THEN "read"
  ELSE IF msg.deliveredTo # <<>> THEN "delivered"
  ELSE "sent"

\* C20: the persisted status of a message is the one derived from its
\* ack-sets: read iff read-by is non-empty, delivered iff delivered-to is
\* non-empty and read-by is empty, sent iff both are empty.
C20_StatusDerivedFromAcks ==
  \A m \in MessageIds : messages[m].status = DerivedStatus(messages[m])

ActiveChatsOf(u) == {c \in Chats : ActiveParticipant(u, c)}

\* C21: the rooms an authenticated session is joined to, and the tracked
\* room set of its user, are a subset of the chats in which the user is an
\* active participant according to storage.
C21_RoomsWithinParticipation ==
  \A s \in Sockets :
     (Open(s) /\ socketUserId[s] # None)
     => /\ rooms[s] \subseteq ActiveChatsOf(socketUserId[s])
        /\ userChats[socketUserId[s]].ids \subseteq ActiveChatsOf(socketUserId[s])

RelayOf(s, id) == WebrtcOffer(s, id) \/ WebrtcAnswer(s, id) \/ WebrtcIceCandidate(s, id)

\* C22: a signaling payload for call C is forwarded only while C is in the
\* call registry and only when the sending connection belongs to a
\* participant of C; it then goes to the other participant only, never back
\* to the sender or to a third party, and it changes neither call records
\* nor the registry.
C22_SignalingOnlyBetweenParticipants ==
  [][\A s \in Sockets, id \in CallIdInputs :
       RelayOf(s, id)
       => /\ UNCHANGED callVars
          /\ emits' # <<>>
               => /\ id \in DOMAIN activeCalls
                  /\ socketUserId[s] # None
                  /\ Participant(socketUserId[s], id)
                  /\ \A i \in 1..Len(emits') :
                        /\ emits'[i].to # s
                        /\ socketUserId[emits'[i].to] = OtherParty(socketUserId[s], id)]_vars

\* C23: whenever a call has both answerTime and endTime set, its duration is
\* endTime - answerTime in whole seconds and is not negative; a call ended
\* without having been answered has duration 0.
C23_DurationIsEndMinusAnswer ==
  \A id \in CallIds :
     /\ (calls[id].answerTime # NoTime /\ calls[id].endTime # NoTime)
          => /\ calls[id].duration = calls[id].endTime - calls[id].answerTime
             /\ calls[id].duration >= 0
     /\ (calls[id].status = "ended" /\ calls[id].answerTime = NoTime)
          => calls[id].duration = 0

CreatesInitiating(u, r) ==
  /\ Len(calls') = Len(calls) + 1
  /\ calls'[Len(calls')].caller = u
  /\ calls'[Len(calls')].receiver = r
  /\ calls'[Len(calls')].status = "initiating"

\* C24: an Initiate by A towards B while B has no live connection creates a
\* call in status initiating, by socket initiate_call and by REST; a call in
\* status initiating never becomes ringing; and a later authenticate of B
\* delivers no incoming_call.
C24_CallToOfflineReceiverStaysInitiating ==
  [][/\ \A s \in Sockets, r \in Users, ty \in CallTypeInputs :
          (/\ InitiateCall(s, r, ty)
           /\ socketUserId[s] \notin {None, r}
           /\ ValidCallType(ty)
           /\ LiveSocketsOf(r) = {}
           /\ ~getActiveCall(socketUserId[s]) /\ ~getActiveCall(r))
          => CreatesInitiating(socketUserId[s], r)
     /\ \A u \in Users, r \in Users, ty \in CallTypeInputs :
          (/\ RestInitiate(u, r, ty)
           /\ u # r
           /\ ValidCallType(ty)
           /\ LiveSocketsOf(r) = {}
           /\ ~getActiveCall(u) /\ ~getActiveCall(r))
          => CreatesInitiating(u, r)
     /\ \A id \in CallIds :
          calls[id].status = "initiating" => calls'[id].status # "ringing"
     /\ \A s \in Sockets, u \in Users, tok \in Tokens :
          Authenticate(s, u, tok) => ~Published("incoming_call", emits')]_vars

OnlyCallOf(u, id) ==
  \A j \in CallIds \ {id} : Participant(u, j) => calls[j].status \in Terminal

\* C25: when A calls connected B the call starts ringing; when B then
\* answers, it becomes answered; when A then ends it, it becomes ended with
\* a duration >= 0 and leaves the registry, and A and B, having no other
\* call, are busy neither by the registry nor by storage, so each can be
\* caller or receiver of a new call.
C25_CallAnswerEndScenario ==
  [][/\ \A s \in Sockets, r \in Users, ty \in CallTypeInputs :
          (InitiateCall(s, r, ty) /\ Len(calls') = Len(calls) + 1)
          => /\ LiveSocketsOf(r) # {}
             /\ calls'[Len(calls')].status = "ringing"
             /\ Len(calls') \in DOMAIN activeCalls'
     /\ \A s \in Sockets, id \in CallIds :
          (/\ AnswerCall(s, id)
           /\ id \in DOMAIN activeCalls
           /\ calls[id].status = "ringing"
           /\ socketUserId[s] = calls[id].receiver)
          => calls'[id].status = "answered"
     /\ \A s \in Sockets, id \in CallIds :
          (/\ EndCall(s, id)
           /\ id \in DOMAIN activeCalls
           /\ calls[id].status = "answered"
           /\ socketUserId[s] = calls[id].caller)
          => /\ calls'[id].status = "ended"
             /\ calls'[id].duration >= 0
             /\ id \notin DOMAIN activeCalls'
             /\ \A u \in {calls[id].caller, calls[id].receiver} :
                   OnlyCallOf(u, id) => (~Busy(u)' /\ ~getActiveCall(u)')]_vars

\* A call answered and then ended one second later by the caller's end_call:
\* both parties still connected and told, the registry empty of it.
C25_Witness ==
  \E id \in CallIds :
     /\ calls[id].status = "ended"
     /\ calls[id].answerTime # NoTime
     /\ calls[id].duration = 1
     /\ id \notin DOMAIN activeCalls
     /\ ~Busy(calls[id].caller) /\ ~Busy(calls[id].receiver)
     /\ \E sa \in LiveSocketsOf(calls[id].caller), sb \in LiveSocketsOf(calls[id].receiver) :
           /\ sa # sb
           /\ emits = <<Ev("call_ended", sa, id, None), Ev("call_ended", sb, id, None)>>

MayUpdateSettings(u, id) ==
  id \in CallIds /\ calls[id].status = "answered" /\ Participant(u, id)

\* C26: a settings update is applied only when the call is answered and the
\* requester is a participant of it; otherwise the persisted call records
\* are unchanged and no call_settings_updated is emitted; by socket
\* update_call_settings and by REST PUT /api/calls/:callId/settings.
C26_SettingsOnlyWhileAnswered ==
  [][/\ \A s \in Sockets, id \in CallIdInputs, upd \in SettingsInputs :
          (UpdateCallSettings(s, id, upd) /\ ~MayUpdateSettings(socketUserId[s], id))
          => (UNCHANGED calls /\ ~Published("call_settings_updated", emits'))
     /\ \A u \in Users, id \in CallIdInputs, upd \in SettingsInputs :
          (RestUpdateSettings(u, id, upd) /\ ~MayUpdateSettings(u, id))
          => (UNCHANGED calls /\ ~Published("call_settings_updated", emits'))]_vars

\* C27: when a storage operation throws during the cleanup of a disconnect,
\* the call registry afterwards still holds no entry whose caller or
\* receiver connection is the disconnected one.
C27_RegistryReleasedDespiteStorageFailure ==
  [][\A s \in Sockets, k \in FailurePoints :
       DisconnectStorageFailure(s, k)
       => \A id \in DOMAIN activeCalls' :
             /\ activeCalls'[id].callerSocket # s
             /\ activeCalls'[id].receiverSocket # s]_vars

PresenceCount(ev, u, to, evs) ==
  Cardinality({i \in 1..Len(evs) : evs[i].ev = ev /\ evs[i].who = u /\ evs[i].to = to})

\* C28: a step in which user u goes from no live authenticated connection
\* to one delivers exactly one user_online about u to every other connected
\* session, a step in which u loses the last one exactly one user_offline,
\* and a step without such a transition delivers no presence event about u.
C28_PresenceOncePerTransition ==
  [][\A u \in Users, t \in Sockets :
       LET wasOnline == \E s \in Sockets : sockState[s] = "open" /\ socketUserId[s] = u
           isOnlineNow == \E s \in Sockets : sockState'[s] = "open" /\ socketUserId'[s] = u
       IN (sockState[t] = "open" /\ sockState'[t] = "open" /\ socketUserId'[t] # u)
          => /\ PresenceCount("user_online", u, t, emits')
                  = IF ~wasOnline /\ isOnlineNow THEN 1 ELSE 0
             /\ PresenceCount("user_offline", u, t, emits')
                  = IF wasOnline /\ ~isOnlineNow THEN 1 ELSE 0]_vars

\* C29: an edit by the original sender of a message that is not deleted is
\* rejected, leaving message and chat unchanged, when the message is older
\* than 15 minutes; otherwise the message takes the new text and the chat's
\* last-message preview is updated exactly when the message is the chat's
\* most recent one.
C29_EditWindowAndPreview ==
  [][\A u \in Users, m \in MessageIdInputs, text \in Texts :
       (RestEditMessage(u, m, text) /\ FindOwnLiveMessage(u, m))
       => IF now - messages[m].createdAt > editTimeLimit
            THEN UNCHANGED <<messages, chats>>
            ELSE /\ messages'[m].text = text
                 /\ chats[messages[m].chat].lastMessage = m
                      => chats'[messages[m].chat].preview = Preview(text)
                 /\ chats[messages[m].chat].lastMessage # m => UNCHANGED chats]_vars

ActiveUsersOfNew(i) ==
  {k \in 1..Len(newChats[i].participants) : newChats[i].participants[k].isActive}

\* C31: every persisted private chat has exactly two active participants,
\* and they are two distinct users, whichever path created it and after any
\* participant removal.
C31_PrivateChatHasTwoDistinctParticipants ==
  /\ \A c \in Chats :
       Cardinality({p \in chats[c].participants : p.isActive}) = 2
  /\ \A i \in 1..Len(newChats) :
       newChats[i].type = "private"
       => /\ Cardinality(ActiveUsersOfNew(i)) = 2
          /\ Cardinality({newChats[i].participants[k].user : k \in ActiveUsersOfNew(i)}) = 2

\* C32: an Initiate whose receiver is the caller fails: it creates no call
\* record, adds no registry entry and emits no incoming_call; by socket
\* initiate_call and by REST POST /api/calls/initiate.
C32_SelfCallFails ==
  [][/\ \A s \in Sockets, ty \in CallTypeInputs :
          (socketUserId[s] # None /\ InitiateCall(s, socketUserId[s], ty))
          => (UNCHANGED callVars /\ ~Published("incoming_call", emits'))
     /\ \A u \in Users, ty \in CallTypeInputs :
          RestInitiate(u, u, ty)
          => (UNCHANGED callVars /\ ~Published("incoming_call", emits'))]_vars

KeepsOthersUnread(x) ==
  \A c \in Chats, y \in Users \ {x} :
     chats'[c].unreadCount[y] >= chats[c].unreadCount[y]

\* C33: no operation of a user X lowers or resets the unread counter of
\* another user Y, and a send leaves the sender's own counter as it was:
\* for the completion of a send_message handler, for mark_read and for
\* POST /api/chats/:chatId/read.
C33_UnreadLoweredOnlyByOwner ==
  [][/\ \A h \in SendIds :
          SendFinish(h)
          => /\ KeepsOthersUnread(sends[h].user)
             /\ \A c \in Chats :
                  chats'[c].unreadCount[sends[h].user] = chats[c].unreadCount[sends[h].user]
     /\ \A s \in ChatSockets, c \in ChatIdInputs :
          MarkRead(s, c, <<>>) => KeepsOthersUnread(socketUserId[s])
     /\ \A u \in Users, c \in ChatIdInputs :
          RestMarkChatRead(u, c) => KeepsOthersUnread(u)]_vars

\* C34: a register with a username and an email not yet in use answers 201,
\* success, a token and the registered username; a login with the email and
\* password of an account answers 200, success, a token and the account's
\* email; a login with another password answers 401.
C34_RegisterThenLogin ==
  [][/\ \A un \in UsernameInputs, em \in EmailInputs, pw \in PasswordInputs :
          (/\ RestRegister(un, em, pw)
           /\ \A a \in accounts : a.username # un /\ a.email # normalizeEmail(em))
          => /\ response'.status = 201 /\ response'.success
             /\ response'.token # NoToken
             /\ response'.user.username = un
     /\ \A em \in EmailInputs, pw \in PasswordInputs :
          RestLogin(em, pw)
          => \A a \in accounts :
                a.email = normalizeEmail(em)
                => IF a.password = Hash(pw)
                     THEN /\ response'.status = 200 /\ response'.success
                          /\ response'.token # NoToken
                          /\ response'.user.email = a.email
                     ELSE response'.status = 401]_vars

\* C35: a call id is in the call registry exactly when the persisted call is
\* non-terminal (no handler of the model is ever mid-flight between steps):
\* for calls made and changed over the socket events, the REST routes and
\* the disconnect cleanup.
C35_RegistryMatchesNonTerminalCalls ==
  \A id \in CallIds :
     id \in DOMAIN activeCalls <=> calls[id].status \in NonTerminal

\* C36: whenever a session registry maps user U to connection S, S is
\* connected and its authenticated identity is U; for the registry of the
\* message handler and for that of the call handler.
C36_RegistryEntryIsLiveAndOwned ==
  \A u \in Users :
     /\ userSockets[u] # None
          => (Open(userSockets[u]) /\ socketUserId[userSockets[u]] = u)
     /\ callUserSockets[u] # None
          => (Open(callUserSockets[u]) /\ socketUserId[callUserSockets[u]] = u)

\* C37: neither the delivered-to set nor the read-by set of a message holds
\* the message's own sender, and a message whose status is past sent has an
\* acknowledgement of a user other than its sender.
C37_SenderNeverAcknowledgesOwnMessage ==
  \A m \in MessageIds :
     /\ ~HasUser(messages[m].deliveredTo, messages[m].sender)
     /\ ~HasUser(messages[m].readBy, messages[m].sender)
     /\ messages[m].status # "sent"
          => \E u \in Users \ {messages[m].sender} :
                HasUser(messages[m].deliveredTo, u) \/ HasUser(messages[m].readBy, u)

ActiveParticipantOf(chatId, u) ==
  \E p \in chats[chatId].participants : p.user = u /\ p.isActive

\* C38: every user in the delivered-to or read-by set of a message is an
\* active participant of the message's chat.
C38_AcknowledgersAreParticipants ==
  \A m \in MessageIds : \A u \in Users :
     (HasUser(messages[m].deliveredTo, u) \/ HasUser(messages[m].readBy, u))
        => ActiveParticipantOf(messages[m].chat, u)

NewestMessageOf(c) ==
  CHOOSE m \in MessagesOfChat(c) : \A k \in MessagesOfChat(c) : k <= m

\* C39: once all send handlers have completed, the last-message summary of
\* a chat with messages refers to the most recently created message of the
\* chat, however the sends were interleaved.
C39_LastMessageIsNewest ==
  NoSendInFlight
  => \A c \in Chats :
        MessagesOfChat(c) # {} => chats[c].lastMessage = NewestMessageOf(c)

\* C40: once every authenticate and disconnect handler has finished, the
\* persisted isOnline flag of a user is true exactly when the session
\* registry holds a connected socket for the user.
C40_PresenceMatchesRegistry ==
  NoPresenceWriteInFlight
  => \A u \in Users :
        isOnline[u] <=> (userSockets[u] # None /\ Open(userSockets[u]))
====
